---- MODULE Spec2Model ----
(***************************************************************************)
(* A state-machine model of the Solidity contracts of ZK-unbanked-demo:    *)
(* UnbankedIdentity, UnbankedGovernance, UnbankedLending and               *)
(* UnbankedCommunityAirdrop, and of the production Express backend with    *)
(* the on-chain service it calls.                                          *)
(*                                                                         *)
(* Every external function is one action.  A call that reverts leaves the  *)
(* contract state as it was (the EVM rolls the transaction back) and only  *)
(* records, in the variable res, which function was called and the custom  *)
(* error it reverted with; a call that returns records "ok".               *)
(*                                                                         *)
(* Addresses are small positive numbers, the address of the deployer       *)
(* (Ownable's owner) is Owner.  uint256(uint160(address)) is the number    *)
(* itself.  Token amounts are counted in units of ONE_TOKEN and time in    *)
(* units of DAY, so that the numbers stay inside TLC's integers; the       *)
(* arithmetic is the code's, floor divisions included.                     *)
(***************************************************************************)
EXTENDS Integers, Sequences, FiniteSets, TLC

VARIABLES
    \* block.timestamp, and the outcome of the last call
    now, res,
    \* UnbankedIdentity; userRegisteredLog is the set of UserRegistered events emitted
    nullifierToUserIdentifier, userData, totalUsers, totalAttestations,
    userRegisteredLog,
    \* UnbankedGovernance; voteCastLog is the set of VoteCast events emitted
    nextProposalId, proposals, voteCastLog,
    \* UnbankedLending; lendingToken is the kind of token contract it was
    \* constructed with, tokenBalance that token's balanceOf, directTransfers
    \* the tokens that holders have sent to the contract with the token's own
    \* transfer
    loanCounter, totalPoolFunds, totalActiveLoans, loans, borrowerProfiles,
    userLoans, collateralBalances, lendingToken, tokenBalance, directTransfers,
    \* UnbankedCommunityAirdrop; its userData and nullifierToUserIdentifier are
    \* airdropUserData and airdropNullifiers, airdropTokenBalance is token's
    \* balanceOf, phaseChangedLog the PhaseChanged events emitted, in order
    currentPhase, merkleRoot, airdropNullifiers, airdropUserData, claimed,
    totalRegistered, totalClaimed, totalDistributed, airdropTokenBalance,
    phaseChangedLog,
    \* The Express backend: its two maps, the handlers suspended at an await
    \* (requests), and per user and airdropId the token payouts that
    \* claimAirdropOnChain has made (airdropPayouts) and the claimAirdrop
    \* requests answered 200 (airdropSucceeded); wallet is the address of the
    \* key the on-chain service signs with, started the number of requests
    \* the server has dispatched to a handler
    users, nullifierToUser, requests, airdropPayouts, airdropSucceeded, wallet,
    started

envVars == <<now, res>>
idVars  == <<nullifierToUserIdentifier, userData, totalUsers, totalAttestations,
             userRegisteredLog>>
govVars == <<nextProposalId, proposals, voteCastLog>>
lendVars == <<loanCounter, totalPoolFunds, totalActiveLoans, loans,
              borrowerProfiles, userLoans, collateralBalances, lendingToken,
              tokenBalance, directTransfers>>
airVars == <<currentPhase, merkleRoot, airdropNullifiers, airdropUserData,
             claimed, totalRegistered, totalClaimed, totalDistributed,
             airdropTokenBalance, phaseChangedLog>>
backVars == <<users, nullifierToUser, requests, airdropPayouts,
              airdropSucceeded, wallet>>
vars    == <<envVars, idVars, govVars, lendVars, airVars, backVars, started>>

\* The variables of the other contracts, which a contract's functions leave alone.
IdFrame   == <<govVars, lendVars, airVars, backVars, started>>
GovFrame  == <<idVars, lendVars, airVars, backVars, started>>
LendFrame == <<idVars, govVars, airVars, backVars, started>>
AirFrame  == <<idVars, govVars, lendVars, backVars, started>>
\* What the steps of the backend leave as it is: its wallet, the governance
\* and lending contracts, and but for the attestation transaction the
\* identity contract.
BackFrame == <<wallet, idVars, govVars, lendVars>>

(***************************************************************************)
(* Bounds of the model                                                     *)
(***************************************************************************)
MaxTime == 1
MaxNullifier == 2
MaxUsers == 3
MaxProposals == 1
MaxOpenLoans == 2
MaxPhaseEvents == 4
MaxFunding == 2
MaxAwards == 1
MaxRequests == 2
MaxStarted == 3
MaxCollateralLoans == 1
MaxDirectTransfers == 1
OwnerTokens == 40
BorrowerTokens == 20
TickDays == 4

Owner == 1
Addr == {1, 2}
UserIds == {0} \cup Addr
Nullifiers == 1..MaxNullifier

Ok == "ok"
\* The outcome of a call: the function, its custom error or Ok, and what it
\* returned (ret) for which arguments (args), where a claim needs them.
Returned(op, args, ret) == [op |-> op, err |-> Ok, ret |-> ret, args |-> args]
Result(op, err) == [op |-> op, err |-> err, ret |-> 0, args |-> <<>>]

\* A reverted call: nothing but the recorded outcome changes.
Revert(op, err, state) == res' = Result(op, err) /\ UNCHANGED state

(***************************************************************************)
(* UnbankedIdentity                                                        *)
(***************************************************************************)
MAX_ATTESTATION_POINTS == 50
MIN_ATTESTATION_POINTS == 10
VERIFICATION_BONUS == 10

NoUserData ==
    [isRegistered |-> FALSE, reputationScore |-> 0, registrationTime |-> 0,
     attesters |-> {}, attestationCount |-> 0]

IdentityInit ==
    /\ nullifierToUserIdentifier = [n \in Nullifiers |-> 0]
    /\ userData = [u \in UserIds |-> NoUserData]
    /\ totalUsers = 0
    /\ totalAttestations = 0
    /\ userRegisteredLog = {}

\* The custom error customVerificationHook reverts with, or Ok.
customVerificationHookErr(nullifier, userIdentifier) ==
    IF nullifierToUserIdentifier[nullifier] # 0 THEN "AlreadyRegistered" ELSE Ok

\* customVerificationHook(output, _userData); dataLen is _userData.length.
customVerificationHook(nullifier, userIdentifier, dataLen) ==
    LET err == customVerificationHookErr(nullifier, userIdentifier) IN
    IF err # Ok
    THEN Revert("customVerificationHook", err, <<now, idVars, IdFrame>>)
    ELSE /\ nullifierToUserIdentifier' =
                [nullifierToUserIdentifier EXCEPT ![nullifier] = userIdentifier]
         /\ userData' = [userData EXCEPT ![userIdentifier] =
                [@ EXCEPT !.isRegistered = TRUE,
                          !.registrationTime = now,
                          !.reputationScore = VERIFICATION_BONUS,
                          !.attestationCount = IF dataLen > 0 THEN @ + 1 ELSE @]]
         /\ totalUsers' = totalUsers + 1
         /\ userRegisteredLog' = userRegisteredLog \cup
                {[nullifier |-> nullifier, userIdentifier |-> userIdentifier]}
         /\ res' = Result("customVerificationHook", Ok)
         /\ UNCHANGED <<now, totalAttestations, IdFrame>>

\* addAttestationErr without the check of user.attesters[msg.sender].
addAttestationErr_NoRepeatCheck(sender, userAddress, points) ==
    LET user == userData[userAddress] IN
    IF ~user.isRegistered THEN "NotRegistered"
    ELSE IF points < MIN_ATTESTATION_POINTS \/ points > MAX_ATTESTATION_POINTS
         THEN "InvalidAttestation"
    ELSE Ok

\* The custom error addAttestation reverts with, or Ok.
addAttestationErr(sender, userAddress, points) ==
    LET user == userData[userAddress] IN
    IF ~user.isRegistered THEN "NotRegistered"
    ELSE IF sender \in user.attesters THEN "InvalidAttestation"
    ELSE IF points < MIN_ATTESTATION_POINTS \/ points > MAX_ATTESTATION_POINTS
         THEN "InvalidAttestation"
    ELSE Ok

addAttestation(sender, userAddress, points) ==
    LET err == addAttestationErr(sender, userAddress, points) IN
    IF err # Ok
    THEN Revert("addAttestation", err, <<now, idVars, IdFrame>>)
    ELSE /\ userData' = [userData EXCEPT ![userAddress] =
                [@ EXCEPT !.attesters = @ \cup {sender},
                          !.attestationCount = @ + 1,
                          !.reputationScore = @ + points]]
         /\ totalAttestations' = totalAttestations + 1
         /\ res' = Result("addAttestation", Ok)
         /\ UNCHANGED <<now, nullifierToUserIdentifier, totalUsers,
                        userRegisteredLog, IdFrame>>

\* getUserData(userAddress): (isRegistered, reputationScore, ...)
getUserData(userAddress) == userData[userAddress]

(***************************************************************************)
(* UnbankedGovernance                                                      *)
(***************************************************************************)
DAY == 1
PIds == 1..MaxProposals

NoProposal ==
    [id |-> 0, description |-> "", startTime |-> 0, endTime |-> 0,
     forVotes |-> 0, againstVotes |-> 0, executed |-> FALSE, hasVoted |-> {},
     minReputationRequired |-> 0]

GovernanceInit ==
    /\ nextProposalId = 1
    /\ proposals = [p \in PIds |-> NoProposal]
    /\ voteCastLog = {}

\* Ownable's onlyOwner modifier.
onlyOwnerErr(sender) ==
    IF sender # Owner THEN "OwnableUnauthorizedAccount" ELSE Ok

createProposal(sender, description, votingDurationDays, minReputationRequired) ==
    LET err == onlyOwnerErr(sender)
        proposalId == nextProposalId IN
    IF err # Ok
    THEN Revert("createProposal", err, <<now, govVars, GovFrame>>)
    ELSE /\ nextProposalId' = nextProposalId + 1
         /\ proposals' = [proposals EXCEPT ![proposalId] =
                [@ EXCEPT !.id = proposalId,
                          !.description = description,
                          !.startTime = now,
                          !.endTime = now + votingDurationDays * DAY,
                          !.minReputationRequired = minReputationRequired]]
         /\ res' = Result("createProposal", Ok)
         /\ UNCHANGED <<now, voteCastLog, GovFrame>>

\* voteErr without the check of proposal.hasVoted[msg.sender].
voteErr_NoVotedCheck(sender, proposalId) ==
    LET proposal == proposals[proposalId]
        user == getUserData(sender) IN
    IF proposal.id = 0 THEN "ProposalNotFound"
    ELSE IF now > proposal.endTime \/ now < proposal.startTime
         THEN "VotingNotActive"
    ELSE IF ~user.isRegistered THEN "NotVerifiedIdentity"
    ELSE IF user.reputationScore < proposal.minReputationRequired
         THEN "InsufficientReputation"
    ELSE Ok

\* voteErr without the check of the caller's reputation.
voteErr_NoReputationCheck(sender, proposalId) ==
    LET proposal == proposals[proposalId]
        user == getUserData(sender) IN
    IF proposal.id = 0 THEN "ProposalNotFound"
    ELSE IF now > proposal.endTime \/ now < proposal.startTime
         THEN "VotingNotActive"
    ELSE IF sender \in proposal.hasVoted THEN "AlreadyVoted"
    ELSE IF ~user.isRegistered THEN "NotVerifiedIdentity"
    ELSE Ok

\* The custom error vote reverts with, or Ok.
voteErr(sender, proposalId) ==
    LET proposal == proposals[proposalId]
        user == getUserData(sender) IN
    IF proposal.id = 0 THEN "ProposalNotFound"
    ELSE IF now > proposal.endTime \/ now < proposal.startTime
         THEN "VotingNotActive"
    ELSE IF sender \in proposal.hasVoted THEN "AlreadyVoted"
    ELSE IF ~user.isRegistered THEN "NotVerifiedIdentity"
    ELSE IF user.reputationScore < proposal.minReputationRequired
         THEN "InsufficientReputation"
    ELSE Ok

vote(sender, proposalId, support) ==
    LET err == voteErr(sender, proposalId)
        votingPower == getUserData(sender).reputationScore IN
    IF err # Ok
    THEN Revert("vote", err, <<now, govVars, GovFrame>>)
    ELSE /\ proposals' = [proposals EXCEPT ![proposalId] =
                [@ EXCEPT !.hasVoted = @ \cup {sender},
                          !.forVotes = IF support THEN @ + votingPower ELSE @,
                          !.againstVotes = IF support THEN @ ELSE @ + votingPower]]
         /\ voteCastLog' = voteCastLog \cup
                {[proposalId |-> proposalId, voter |-> sender,
                  support |-> support, votingPower |-> votingPower]}
         /\ res' = Result("vote", Ok)
         /\ UNCHANGED <<now, nextProposalId, GovFrame>>

\* executeProposalErr that lets a proposal execute at its endTime (< for <=).
executeProposalErr_AtEndTime(sender, proposalId) ==
    LET proposal == proposals[proposalId] IN
    IF onlyOwnerErr(sender) # Ok THEN onlyOwnerErr(sender)
    ELSE IF proposal.id = 0 THEN "ProposalNotFound"
    ELSE IF now < proposal.endTime THEN "VotingNotActive"
    ELSE IF proposal.executed THEN "ProposalNotExecutable"
    ELSE IF proposal.forVotes <= proposal.againstVotes THEN "ProposalNotExecutable"
    ELSE Ok

\* executeProposalErr without the check of proposal.executed.
executeProposalErr_NoExecutedCheck(sender, proposalId) ==
    LET proposal == proposals[proposalId] IN
    IF onlyOwnerErr(sender) # Ok THEN onlyOwnerErr(sender)
    ELSE IF proposal.id = 0 THEN "ProposalNotFound"
    ELSE IF now <= proposal.endTime THEN "VotingNotActive"
    ELSE IF proposal.forVotes <= proposal.againstVotes THEN "ProposalNotExecutable"
    ELSE Ok

\* The custom error executeProposal reverts with, or Ok.
executeProposalErr(sender, proposalId) ==
    LET proposal == proposals[proposalId] IN
    IF onlyOwnerErr(sender) # Ok THEN onlyOwnerErr(sender)
    ELSE IF proposal.id = 0 THEN "ProposalNotFound"
    ELSE IF now <= proposal.endTime THEN "VotingNotActive"
    ELSE IF proposal.executed THEN "ProposalNotExecutable"
    ELSE IF proposal.forVotes <= proposal.againstVotes THEN "ProposalNotExecutable"
    ELSE Ok

executeProposal(sender, proposalId) ==
    LET err == executeProposalErr(sender, proposalId) IN
    IF err # Ok
    THEN Revert("executeProposal", err, <<now, govVars, GovFrame>>)
    ELSE /\ proposals' = [proposals EXCEPT ![proposalId].executed = TRUE]
         /\ res' = Result("executeProposal", Ok)
         /\ UNCHANGED <<now, nextProposalId, voteCastLog, GovFrame>>

\* hasVoted(_proposalId, _voter)
hasVoted(proposalId, voter) == voter \in proposals[proposalId].hasVoted

(***************************************************************************)
(* UnbankedLending                                                         *)
(***************************************************************************)
\* 10 ** 18, the token's smallest-unit count per token, scaled down.
ONE_TOKEN == 100
MIN_LOAN_AMOUNT == 10 * ONE_TOKEN
MAX_LOAN_AMOUNT == 1000 * ONE_TOKEN
MIN_LOAN_DURATION == 7 * DAY
MAX_LOAN_DURATION == 90 * DAY
BASE_INTEREST_RATE == 1200
MAX_ACTIVE_LOANS_PER_USER == 3
MIN_REPUTATION_FOR_LOAN == 50
COLLATERAL_RATIO == 150

\* address(this) of the lending contract, a token holder like any other.
LendingContract == 0
Holders == Addr \cup {LendingContract}
\* One loan more than a borrower may have active: the ids the model uses.
MaxLoans == MAX_ACTIVE_LOANS_PER_USER + 1
LoanIds == 1..MaxLoans

NoLoan ==
    [id |-> 0, borrower |-> 0, amount |-> 0, duration |-> 0, interestRate |-> 0,
     startTime |-> 0, endTime |-> 0, repaidAmount |-> 0, approved |-> FALSE,
     active |-> FALSE, defaulted |-> FALSE, collateralAmount |-> 0]

NoProfile ==
    [totalBorrowed |-> 0, totalRepaid |-> 0, activeLoans |-> 0,
     defaultedLoans |-> 0, lastLoanTime |-> 0, isBanned |-> FALSE]

\* The token contracts the constructor's _lendingToken can name: the
\* repository's DemoToken, which has transfer and no transferFrom and is
\* what scripts/deploy.js passes, and a token that implements IERC20
\* (OpenZeppelin's ERC20), on which the callers of the lending contract
\* have approved it.
DemoToken == "DemoToken"
ERC20 == "ERC20"
LendingTokens == {DemoToken, ERC20}

\* The contract as deployed with the token given, with the borrower profiles
\* given.
LendingStart(profiles, token) ==
    /\ lendingToken = token
    /\ directTransfers = 0
    /\ loanCounter = 0
    /\ totalPoolFunds = 0
    /\ totalActiveLoans = 0
    /\ loans = [i \in LoanIds |-> NoLoan]
    /\ borrowerProfiles = profiles
    /\ userLoans = [a \in Addr |-> <<>>]
    /\ collateralBalances = [a \in Addr |-> 0]
    /\ tokenBalance = [h \in Holders |->
                          IF h = LendingContract THEN 0
                          ELSE IF h = Owner THEN OwnerTokens * ONE_TOKEN
                          ELSE BorrowerTokens * ONE_TOKEN]

\* scripts/deploy.js: the lending contract is deployed with DemoToken.
LendingInit == LendingStart([a \in Addr |-> NoProfile], DemoToken)

\* What the token reverts with when the sender's balance is too small:
\* DemoToken's require message, ERC20's custom error.
InsufficientBalance ==
    IF lendingToken = DemoToken THEN "Insufficient balance"
    ELSE "ERC20InsufficientBalance"

\* What SafeERC20 reverts with when the token has no function transferFrom.
NoTransferFrom == "transferFrom call failed"

\* lendingToken.safeTransfer(to, amount) by from: the token's transfer, which
\* reverts when the sender's balance is too small.
safeTransferErr(from, amount) ==
    IF tokenBalance[from] < amount THEN InsufficientBalance ELSE Ok

\* lendingToken.safeTransferFrom(from, address(this), amount): the call to
\* transferFrom fails on DemoToken, whatever the amount; on an ERC20 it
\* reverts when the sender's balance is too small.
safeTransferFromErr(from, amount) ==
    IF lendingToken = DemoToken THEN NoTransferFrom
    ELSE safeTransferErr(from, amount)

safeTransfer(from, to, amount) ==
    IF from = to THEN tokenBalance
    ELSE [tokenBalance EXCEPT ![from] = @ - amount, ![to] = @ + amount]

\* lendingToken.transfer(to, amount) by a holder, outside the lending contract.
lendingTokenTransfer(sender, to, amount) ==
    LET err == safeTransferErr(sender, amount) IN
    IF err # Ok
    THEN Revert("lendingToken.transfer", err, <<now, lendVars, LendFrame>>)
    ELSE /\ tokenBalance' = safeTransfer(sender, to, amount)
         /\ directTransfers' =
                IF to = LendingContract /\ sender # to
                THEN directTransfers + amount ELSE directTransfers
         /\ res' = Result("lendingToken.transfer", Ok)
         /\ UNCHANGED <<now, loanCounter, totalPoolFunds, totalActiveLoans,
                        loans, borrowerProfiles, userLoans, collateralBalances,
                        lendingToken, LendFrame>>

\* calculateInterestRate with the high-reputation threshold off by one (>= 100).
calculateInterestRate_Threshold(borrower, reputationScore) ==
    LET profile == borrowerProfiles[borrower]
        rate0 == BASE_INTEREST_RATE
        rate1 == IF reputationScore >= 100 THEN (rate0 * 80) \div 100
                 ELSE IF reputationScore > 75 THEN (rate0 * 90) \div 100
                 ELSE rate0
        rate2 == IF profile.defaultedLoans > 0
                 THEN (rate1 * (100 + profile.defaultedLoans * 10)) \div 100
                 ELSE rate1
        rate3 == IF profile.totalRepaid > profile.totalBorrowed
                    /\ profile.defaultedLoans = 0
                 THEN (rate2 * 95) \div 100
                 ELSE rate2
    IN  rate3

calculateInterestRate(borrower, reputationScore) ==
    LET profile == borrowerProfiles[borrower]
        rate0 == BASE_INTEREST_RATE
        rate1 == IF reputationScore > 100 THEN (rate0 * 80) \div 100
                 ELSE IF reputationScore > 75 THEN (rate0 * 90) \div 100
                 ELSE rate0
        rate2 == IF profile.defaultedLoans > 0
                 THEN (rate1 * (100 + profile.defaultedLoans * 10)) \div 100
                 ELSE rate1
        rate3 == IF profile.totalRepaid > profile.totalBorrowed
                    /\ profile.defaultedLoans = 0
                 THEN (rate2 * 95) \div 100
                 ELSE rate2
    IN  rate3

calculateTotalDue(loanId) ==
    LET loan == loans[loanId]
        timeElapsed == IF now > loan.endTime THEN loan.duration
                       ELSE now - loan.startTime
        interest == (loan.amount * loan.interestRate * timeElapsed)
                        \div (10000 * 365 * DAY)
    IN  IF loan.id = 0 THEN 0 ELSE loan.amount + interest

\* requestLoanErr with the loan cap off by one (> for >=).
requestLoanErr_CapOffByOne(sender, amount, duration) ==
    LET user == getUserData(sender)
        profile == borrowerProfiles[sender] IN
    IF amount < MIN_LOAN_AMOUNT \/ amount > MAX_LOAN_AMOUNT THEN "InvalidAmount"
    ELSE IF duration < MIN_LOAN_DURATION \/ duration > MAX_LOAN_DURATION
         THEN "InvalidAmount"
    ELSE IF ~user.isRegistered THEN "NotRegistered"
    ELSE IF user.reputationScore < MIN_REPUTATION_FOR_LOAN
         THEN "InsufficientReputation"
    ELSE IF profile.isBanned THEN "UnauthorizedAccess"
    ELSE IF profile.activeLoans > MAX_ACTIVE_LOANS_PER_USER
         THEN "UnauthorizedAccess"
    ELSE IF totalPoolFunds < amount THEN "InsufficientFunds"
    ELSE Ok

\* The custom error requestLoan reverts with, or Ok.
requestLoanErr(sender, amount, duration) ==
    LET user == getUserData(sender)
        profile == borrowerProfiles[sender] IN
    IF amount < MIN_LOAN_AMOUNT \/ amount > MAX_LOAN_AMOUNT THEN "InvalidAmount"
    ELSE IF duration < MIN_LOAN_DURATION \/ duration > MAX_LOAN_DURATION
         THEN "InvalidAmount"
    ELSE IF ~user.isRegistered THEN "NotRegistered"
    ELSE IF user.reputationScore < MIN_REPUTATION_FOR_LOAN
         THEN "InsufficientReputation"
    ELSE IF profile.isBanned THEN "UnauthorizedAccess"
    ELSE IF profile.activeLoans >= MAX_ACTIVE_LOANS_PER_USER
         THEN "UnauthorizedAccess"
    ELSE IF totalPoolFunds < amount THEN "InsufficientFunds"
    ELSE Ok

requestLoan(sender, amount, duration) ==
    LET err == requestLoanErr(sender, amount, duration)
        loanId == loanCounter + 1
        interestRate ==
            calculateInterestRate(sender, getUserData(sender).reputationScore) IN
    IF err # Ok
    THEN Revert("requestLoan", err, <<now, lendVars, LendFrame>>)
    ELSE /\ loanCounter' = loanId
         /\ loans' = [loans EXCEPT ![loanId] =
                [id |-> loanId, borrower |-> sender, amount |-> amount,
                 duration |-> duration, interestRate |-> interestRate,
                 startTime |-> 0, endTime |-> 0, repaidAmount |-> 0,
                 approved |-> FALSE, active |-> FALSE, defaulted |-> FALSE,
                 collateralAmount |-> 0]]
         /\ userLoans' = [userLoans EXCEPT ![sender] = Append(@, loanId)]
         /\ res' = Returned("requestLoan", <<>>, loanId)
         /\ UNCHANGED <<now, totalPoolFunds, totalActiveLoans, borrowerProfiles,
                        collateralBalances, tokenBalance,
                        lendingToken, directTransfers, LendFrame>>

\* approveLoanErr without the check of loan.approved.
approveLoanErr_NoApprovedCheck(sender, loanId) ==
    LET loan == loans[loanId] IN
    IF onlyOwnerErr(sender) # Ok THEN onlyOwnerErr(sender)
    ELSE IF loan.id = 0 THEN "LoanNotFound"
    ELSE IF totalPoolFunds < loan.amount THEN "InsufficientFunds"
    ELSE safeTransferErr(LendingContract, loan.amount)

\* The custom error approveLoan reverts with, or Ok.
approveLoanErr(sender, loanId) ==
    LET loan == loans[loanId] IN
    IF onlyOwnerErr(sender) # Ok THEN onlyOwnerErr(sender)
    ELSE IF loan.id = 0 THEN "LoanNotFound"
    ELSE IF loan.approved THEN "LoanAlreadyApproved"
    ELSE IF totalPoolFunds < loan.amount THEN "InsufficientFunds"
    ELSE safeTransferErr(LendingContract, loan.amount)

approveLoan(sender, loanId) ==
    LET err == approveLoanErr(sender, loanId)
        loan == loans[loanId] IN
    IF err # Ok
    THEN Revert("approveLoan", err, <<now, lendVars, LendFrame>>)
    ELSE /\ loans' = [loans EXCEPT ![loanId] =
                [@ EXCEPT !.approved = TRUE, !.active = TRUE,
                          !.startTime = now, !.endTime = now + loan.duration]]
         /\ totalPoolFunds' = totalPoolFunds - loan.amount
         /\ totalActiveLoans' = totalActiveLoans + loan.amount
         /\ borrowerProfiles' = [borrowerProfiles EXCEPT ![loan.borrower] =
                [@ EXCEPT !.activeLoans = @ + 1,
                          !.totalBorrowed = @ + loan.amount,
                          !.lastLoanTime = now]]
         /\ tokenBalance' = safeTransfer(LendingContract, loan.borrower, loan.amount)
         /\ res' = Result("approveLoan", Ok)
         /\ UNCHANGED <<now, loanCounter, userLoans, collateralBalances,
                        lendingToken, directTransfers, LendFrame>>

\* The custom error repayLoan reverts with, or Ok.
repayLoanErr(sender, loanId, amount) ==
    LET loan == loans[loanId]
        totalDue == calculateTotalDue(loanId)
        remainingDebt == totalDue - loan.repaidAmount
        repaymentAmount == IF amount > remainingDebt THEN remainingDebt ELSE amount IN
    IF loan.id = 0 THEN "LoanNotFound"
    ELSE IF ~loan.active THEN "LoanNotApproved"
    ELSE IF loan.borrower # sender THEN "UnauthorizedAccess"
    ELSE IF amount = 0 THEN "InvalidAmount"
    ELSE IF totalDue < loan.repaidAmount THEN "Panic"
    ELSE safeTransferFromErr(sender, repaymentAmount)

\* repayLoan that takes the whole amount offered.
repayLoan_NoCap(sender, loanId, amount) ==
    LET err == repayLoanErr(sender, loanId, amount)
        loan == loans[loanId]
        totalDue == calculateTotalDue(loanId)
        remainingDebt == totalDue - loan.repaidAmount
        repaymentAmount == amount
        repaid == loan.repaidAmount + repaymentAmount
        isFullRepayment == repaid >= totalDue IN
    IF err # Ok
    THEN Revert("repayLoan", err, <<now, lendVars, LendFrame>>)
    ELSE /\ tokenBalance' = safeTransfer(sender, LendingContract, repaymentAmount)
         /\ totalPoolFunds' = totalPoolFunds + repaymentAmount
         /\ loans' = [loans EXCEPT ![loanId] =
                IF isFullRepayment
                THEN [@ EXCEPT !.repaidAmount = repaid, !.active = FALSE,
                               !.collateralAmount = 0]
                ELSE [@ EXCEPT !.repaidAmount = repaid]]
         /\ totalActiveLoans' =
                IF isFullRepayment THEN totalActiveLoans - loan.amount
                ELSE totalActiveLoans
         /\ borrowerProfiles' =
                IF isFullRepayment
                THEN [borrowerProfiles EXCEPT ![loan.borrower] =
                        [@ EXCEPT !.activeLoans = @ - 1, !.totalRepaid = @ + repaid]]
                ELSE borrowerProfiles
         /\ collateralBalances' =
                IF isFullRepayment /\ loan.collateralAmount > 0
                THEN [collateralBalances EXCEPT
                        ![loan.borrower] = @ + loan.collateralAmount]
                ELSE collateralBalances
         /\ res' = Result("repayLoan", Ok)
         /\ UNCHANGED <<now, loanCounter, userLoans,
                        lendingToken, directTransfers, LendFrame>>

repayLoan(sender, loanId, amount) ==
    LET err == repayLoanErr(sender, loanId, amount)
        loan == loans[loanId]
        totalDue == calculateTotalDue(loanId)
        remainingDebt == totalDue - loan.repaidAmount
        repaymentAmount == IF amount > remainingDebt THEN remainingDebt ELSE amount
        repaid == loan.repaidAmount + repaymentAmount
        isFullRepayment == repaid >= totalDue IN
    IF err # Ok
    THEN Revert("repayLoan", err, <<now, lendVars, LendFrame>>)
    ELSE /\ tokenBalance' = safeTransfer(sender, LendingContract, repaymentAmount)
         /\ totalPoolFunds' = totalPoolFunds + repaymentAmount
         /\ loans' = [loans EXCEPT ![loanId] =
                IF isFullRepayment
                THEN [@ EXCEPT !.repaidAmount = repaid, !.active = FALSE,
                               !.collateralAmount = 0]
                ELSE [@ EXCEPT !.repaidAmount = repaid]]
         /\ totalActiveLoans' =
                IF isFullRepayment THEN totalActiveLoans - loan.amount
                ELSE totalActiveLoans
         /\ borrowerProfiles' =
                IF isFullRepayment
                THEN [borrowerProfiles EXCEPT ![loan.borrower] =
                        [@ EXCEPT !.activeLoans = @ - 1, !.totalRepaid = @ + repaid]]
                ELSE borrowerProfiles
         /\ collateralBalances' =
                IF isFullRepayment /\ loan.collateralAmount > 0
                THEN [collateralBalances EXCEPT
                        ![loan.borrower] = @ + loan.collateralAmount]
                ELSE collateralBalances
         /\ res' = Result("repayLoan", Ok)
         /\ UNCHANGED <<now, loanCounter, userLoans,
                        lendingToken, directTransfers, LendFrame>>

\* The custom error depositCollateral reverts with, or Ok.
depositCollateralErr(sender, loanId, amount) ==
    LET loan == loans[loanId] IN
    IF loan.id = 0 THEN "LoanNotFound"
    ELSE IF loan.borrower # sender THEN "UnauthorizedAccess"
    ELSE IF ~loan.active THEN "LoanNotApproved"
    ELSE safeTransferFromErr(sender, amount)

depositCollateral(sender, loanId, amount) ==
    LET err == depositCollateralErr(sender, loanId, amount) IN
    IF err # Ok
    THEN Revert("depositCollateral", err, <<now, lendVars, LendFrame>>)
    ELSE /\ tokenBalance' = safeTransfer(sender, LendingContract, amount)
         /\ loans' = [loans EXCEPT ![loanId].collateralAmount = @ + amount]
         /\ res' = Result("depositCollateral", Ok)
         /\ UNCHANGED <<now, loanCounter, totalPoolFunds, totalActiveLoans,
                        borrowerProfiles, userLoans, collateralBalances,
                        lendingToken, directTransfers, LendFrame>>

\* markAsDefaultedErr without the check of the loan's endTime.
markAsDefaultedErr_NoDeadlineCheck(sender, loanId) ==
    LET loan == loans[loanId] IN
    IF onlyOwnerErr(sender) # Ok THEN onlyOwnerErr(sender)
    ELSE IF loan.id = 0 THEN "LoanNotFound"
    ELSE IF ~loan.active THEN "LoanNotApproved"
    ELSE IF calculateTotalDue(loanId) < loan.repaidAmount THEN "Panic"
    ELSE Ok

\* The custom error markAsDefaulted reverts with, or Ok.
markAsDefaultedErr(sender, loanId) ==
    LET loan == loans[loanId] IN
    IF onlyOwnerErr(sender) # Ok THEN onlyOwnerErr(sender)
    ELSE IF loan.id = 0 THEN "LoanNotFound"
    ELSE IF ~loan.active THEN "LoanNotApproved"
    ELSE IF now <= loan.endTime THEN "LoanExpired"
    ELSE IF calculateTotalDue(loanId) < loan.repaidAmount THEN "Panic"
    ELSE Ok

\* markAsDefaulted that forgets to clear loan.active.
markAsDefaulted_StaysActive(sender, loanId) ==
    LET err == markAsDefaultedErr(sender, loanId)
        loan == loans[loanId] IN
    IF err # Ok
    THEN Revert("markAsDefaulted", err, <<now, lendVars, LendFrame>>)
    ELSE /\ loans' = [loans EXCEPT ![loanId] =
                [@ EXCEPT !.defaulted = TRUE, !.collateralAmount = 0]]
         /\ borrowerProfiles' = [borrowerProfiles EXCEPT ![loan.borrower] =
                [@ EXCEPT !.activeLoans = @ - 1, !.defaultedLoans = @ + 1]]
         /\ totalPoolFunds' = totalPoolFunds + loan.collateralAmount
         /\ totalActiveLoans' = totalActiveLoans - loan.amount
         /\ res' = Result("markAsDefaulted", Ok)
         /\ UNCHANGED <<now, loanCounter, userLoans, collateralBalances,
                        tokenBalance, lendingToken, directTransfers, LendFrame>>

\* markAsDefaulted that clears the collateral without adding it to the pool.
markAsDefaulted_CollateralLost(sender, loanId) ==
    LET err == markAsDefaultedErr(sender, loanId)
        loan == loans[loanId] IN
    IF err # Ok
    THEN Revert("markAsDefaulted", err, <<now, lendVars, LendFrame>>)
    ELSE /\ loans' = [loans EXCEPT ![loanId] =
                [@ EXCEPT !.defaulted = TRUE, !.active = FALSE,
                          !.collateralAmount = 0]]
         /\ borrowerProfiles' = [borrowerProfiles EXCEPT ![loan.borrower] =
                [@ EXCEPT !.activeLoans = @ - 1, !.defaultedLoans = @ + 1]]
         /\ totalPoolFunds' = totalPoolFunds
         /\ totalActiveLoans' = totalActiveLoans - loan.amount
         /\ res' = Result("markAsDefaulted", Ok)
         /\ UNCHANGED <<now, loanCounter, userLoans, collateralBalances,
                        tokenBalance, lendingToken, directTransfers, LendFrame>>

markAsDefaulted(sender, loanId) ==
    LET err == markAsDefaultedErr(sender, loanId)
        loan == loans[loanId] IN
    IF err # Ok
    THEN Revert("markAsDefaulted", err, <<now, lendVars, LendFrame>>)
    ELSE /\ loans' = [loans EXCEPT ![loanId] =
                [@ EXCEPT !.defaulted = TRUE, !.active = FALSE,
                          !.collateralAmount = 0]]
         /\ borrowerProfiles' = [borrowerProfiles EXCEPT ![loan.borrower] =
                [@ EXCEPT !.activeLoans = @ - 1, !.defaultedLoans = @ + 1]]
         /\ totalPoolFunds' = totalPoolFunds + loan.collateralAmount
         /\ totalActiveLoans' = totalActiveLoans - loan.amount
         /\ res' = Result("markAsDefaulted", Ok)
         /\ UNCHANGED <<now, loanCounter, userLoans, collateralBalances,
                        tokenBalance, lendingToken, directTransfers, LendFrame>>

\* The custom error fundPool reverts with, or Ok.
fundPoolErr(sender, amount) ==
    IF amount = 0 THEN "InvalidAmount" ELSE safeTransferFromErr(sender, amount)

fundPool(sender, amount) ==
    LET err == fundPoolErr(sender, amount) IN
    IF err # Ok
    THEN Revert("fundPool", err, <<now, lendVars, LendFrame>>)
    ELSE /\ tokenBalance' = safeTransfer(sender, LendingContract, amount)
         /\ totalPoolFunds' = totalPoolFunds + amount
         /\ res' = Result("fundPool", Ok)
         /\ UNCHANGED <<now, loanCounter, totalActiveLoans, loans, borrowerProfiles,
                        userLoans, collateralBalances,
                        lendingToken, directTransfers, LendFrame>>

\* The custom error withdrawFromPool reverts with, or Ok.
withdrawFromPoolErr(sender, amount) ==
    IF onlyOwnerErr(sender) # Ok THEN onlyOwnerErr(sender)
    ELSE IF amount > totalPoolFunds THEN "InsufficientFunds"
    ELSE safeTransferErr(LendingContract, amount)

withdrawFromPool(sender, amount) ==
    LET err == withdrawFromPoolErr(sender, amount) IN
    IF err # Ok
    THEN Revert("withdrawFromPool", err, <<now, lendVars, LendFrame>>)
    ELSE /\ totalPoolFunds' = totalPoolFunds - amount
         /\ tokenBalance' = safeTransfer(LendingContract, Owner, amount)
         /\ res' = Result("withdrawFromPool", Ok)
         /\ UNCHANGED <<now, loanCounter, totalActiveLoans, loans, borrowerProfiles,
                        userLoans, collateralBalances,
                        lendingToken, directTransfers, LendFrame>>

setBorrowerBan(sender, borrower, banned) ==
    LET err == onlyOwnerErr(sender) IN
    IF err # Ok
    THEN Revert("setBorrowerBan", err, <<now, lendVars, LendFrame>>)
    ELSE /\ borrowerProfiles' = [borrowerProfiles EXCEPT ![borrower].isBanned = banned]
         /\ res' = Result("setBorrowerBan", Ok)
         /\ UNCHANGED <<now, loanCounter, totalPoolFunds, totalActiveLoans, loans,
                        userLoans, collateralBalances, tokenBalance,
                        lendingToken, directTransfers, LendFrame>>

(***************************************************************************)
(* UnbankedCommunityAirdrop                                                *)
(***************************************************************************)
\* enum Phase
Setup == 0
Registration == 1
Claim == 2
Ended == 3

BASE_ALLOCATION == 100 * ONE_TOKEN
EARLY_BIRD_BONUS == 20 * ONE_TOKEN
COMMUNITY_REFERRAL_BONUS == 10 * ONE_TOKEN
\* The number of registrants that earn the early bird bonus.
EARLY_BIRD_REGISTRANTS == 100

AirdropContract == 0
AirdropHolders == {AirdropContract} \cup Addr

NoAirdropUser ==
    [isRegistered |-> FALSE, hasClaimed |-> FALSE, baseAllocation |-> 0,
     reputationBonus |-> 0, registrationTime |-> 0]

\* A merkle root is 0 (none set) or BonusRoot, the root of the tree whose
\* leaves are keccak256(account, bonusAmount) for the pairs of BonusTree; the
\* proof of a leaf is the sequence of its sibling hashes, written <<leaf>>.
BonusRoot == 1
BonusTree == {<<a, COMMUNITY_REFERRAL_BONUS>> : a \in Addr}

\* MerkleProof.verify(proof, root, leaf)
MerkleProofVerify(proof, root, leaf) ==
    root = BonusRoot /\ leaf \in BonusTree /\ proof = <<leaf>>

\* The contract as deployed; the deployer holds the supply of the token.
AirdropInit ==
    /\ currentPhase = Setup
    /\ merkleRoot = 0
    /\ airdropNullifiers = [n \in Nullifiers |-> 0]
    /\ airdropUserData = [u \in UserIds |-> NoAirdropUser]
    /\ claimed = {}
    /\ totalRegistered = 0
    /\ totalClaimed = 0
    /\ totalDistributed = 0
    /\ airdropTokenBalance = [h \in AirdropHolders |->
                                 IF h = Owner THEN OwnerTokens * BASE_ALLOCATION
                                 ELSE 0]
    /\ phaseChangedLog = <<>>

\* token.transfer(to, amount) by a holder: how the contract is funded.
airdropTokenTransfer(sender, to, amount) ==
    IF airdropTokenBalance[sender] < amount
    THEN Revert("transfer", "Insufficient balance", <<now, airVars, AirFrame>>)
    ELSE /\ airdropTokenBalance' =
                IF sender = to THEN airdropTokenBalance
                ELSE [airdropTokenBalance EXCEPT ![sender] = @ - amount,
                                                 ![to] = @ + amount]
         /\ res' = Result("transfer", Ok)
         /\ UNCHANGED <<now, currentPhase, merkleRoot, airdropNullifiers,
                        airdropUserData, claimed, totalRegistered, totalClaimed,
                        totalDistributed, phaseChangedLog, AirFrame>>

\* airdropCustomVerificationHookErr without the check of currentPhase.
airdropCustomVerificationHookErr_NoPhaseCheck(nullifier, userIdentifier) ==
    IF airdropNullifiers[nullifier] # 0 THEN "AlreadyRegistered" ELSE Ok

\* The custom error the airdrop's customVerificationHook reverts with, or Ok.
airdropCustomVerificationHookErr(nullifier, userIdentifier) ==
    IF currentPhase # Registration THEN "RegistrationNotOpen"
    ELSE IF airdropNullifiers[nullifier] # 0 THEN "AlreadyRegistered"
    ELSE Ok

\* UnbankedCommunityAirdrop.customVerificationHook(output, _userData)
airdropCustomVerificationHook(nullifier, userIdentifier) ==
    LET err == airdropCustomVerificationHookErr(nullifier, userIdentifier) IN
    IF err # Ok
    THEN Revert("airdropCustomVerificationHook", err, <<now, airVars, AirFrame>>)
    ELSE /\ airdropNullifiers' =
                [airdropNullifiers EXCEPT ![nullifier] = userIdentifier]
         /\ airdropUserData' = [airdropUserData EXCEPT ![userIdentifier] =
                [@ EXCEPT !.isRegistered = TRUE,
                          !.baseAllocation = BASE_ALLOCATION,
                          !.registrationTime = now,
                          !.reputationBonus =
                              IF totalRegistered < EARLY_BIRD_REGISTRANTS
                              THEN @ + EARLY_BIRD_BONUS ELSE @]]
         /\ totalRegistered' = totalRegistered + 1
         /\ res' = Result("airdropCustomVerificationHook", Ok)
         /\ UNCHANGED <<now, currentPhase, merkleRoot, claimed, totalClaimed,
                        totalDistributed, airdropTokenBalance, phaseChangedLog,
                        AirFrame>>

\* What claimAirdrop pays: the allocations, and the bonus of a proof that verifies.
claimTotalAmount(sender, merkleProof, bonusAmount) ==
    LET user == airdropUserData[sender]
        base == user.baseAllocation + user.reputationBonus
    IN  IF /\ Len(merkleProof) > 0 /\ merkleRoot # 0
           /\ MerkleProofVerify(merkleProof, merkleRoot, <<sender, bonusAmount>>)
        THEN base + bonusAmount
        ELSE base

\* claimAirdropErr without the check of user.hasClaimed.
claimAirdropErr_NoClaimedCheck(sender, merkleProof, bonusAmount) ==
    LET user == airdropUserData[sender] IN
    IF currentPhase # Claim THEN "ClaimNotOpen"
    ELSE IF ~user.isRegistered THEN "NotRegistered"
    ELSE IF airdropTokenBalance[AirdropContract]
                < claimTotalAmount(sender, merkleProof, bonusAmount)
         THEN "InsufficientBalance"
    ELSE Ok

\* The custom error claimAirdrop reverts with, or Ok.
claimAirdropErr(sender, merkleProof, bonusAmount) ==
    LET user == airdropUserData[sender] IN
    IF currentPhase # Claim THEN "ClaimNotOpen"
    ELSE IF ~user.isRegistered THEN "NotRegistered"
    ELSE IF user.hasClaimed THEN "AlreadyClaimed"
    ELSE IF airdropTokenBalance[AirdropContract]
                < claimTotalAmount(sender, merkleProof, bonusAmount)
         THEN "InsufficientBalance"
    ELSE Ok

\* claimAirdrop(merkleProof, bonusAmount)
claimAirdrop(sender, merkleProof, bonusAmount) ==
    LET err == claimAirdropErr(sender, merkleProof, bonusAmount)
        totalAmount == claimTotalAmount(sender, merkleProof, bonusAmount) IN
    IF err # Ok
    THEN Revert("claimAirdrop", err, <<now, airVars, AirFrame>>)
    ELSE /\ airdropUserData' =
                [airdropUserData EXCEPT ![sender].hasClaimed = TRUE]
         /\ claimed' = claimed \cup {sender}
         /\ totalClaimed' = totalClaimed + 1
         /\ totalDistributed' = totalDistributed + totalAmount
         /\ airdropTokenBalance' =
                [airdropTokenBalance EXCEPT ![AirdropContract] = @ - totalAmount,
                                            ![sender] = @ + totalAmount]
         /\ res' = Returned("claimAirdrop", <<sender>>, totalAmount)
         /\ UNCHANGED <<now, currentPhase, merkleRoot, airdropNullifiers,
                        totalRegistered, phaseChangedLog, AirFrame>>

\* awardReputationBonus(user, amount, reason)
awardReputationBonus(sender, user, amount) ==
    IF onlyOwnerErr(sender) # Ok
    THEN Revert("awardReputationBonus", onlyOwnerErr(sender),
                <<now, airVars, AirFrame>>)
    ELSE /\ airdropUserData' =
                [airdropUserData EXCEPT ![user].reputationBonus = @ + amount]
         /\ res' = Result("awardReputationBonus", Ok)
         /\ UNCHANGED <<now, currentPhase, merkleRoot, airdropNullifiers, claimed,
                        totalRegistered, totalClaimed, totalDistributed,
                        airdropTokenBalance, phaseChangedLog, AirFrame>>

\* advancePhase that reopens the airdrop from Ended.
advancePhase_Reopens(sender) ==
    IF onlyOwnerErr(sender) # Ok
    THEN Revert("advancePhase", onlyOwnerErr(sender), <<now, airVars, AirFrame>>)
    ELSE /\ currentPhase' = (currentPhase + 1) % (Ended + 1)
         /\ phaseChangedLog' = Append(phaseChangedLog, currentPhase')
         /\ res' = Result("advancePhase", Ok)
         /\ UNCHANGED <<now, merkleRoot, airdropNullifiers, airdropUserData,
                        claimed, totalRegistered, totalClaimed, totalDistributed,
                        airdropTokenBalance, AirFrame>>

\* advancePhase(): PhaseChanged is emitted in Ended as well.
advancePhase(sender) ==
    IF onlyOwnerErr(sender) # Ok
    THEN Revert("advancePhase", onlyOwnerErr(sender), <<now, airVars, AirFrame>>)
    ELSE /\ currentPhase' = IF currentPhase = Setup THEN Registration
                            ELSE IF currentPhase = Registration THEN Claim
                            ELSE IF currentPhase = Claim THEN Ended
                            ELSE currentPhase
         /\ phaseChangedLog' = Append(phaseChangedLog, currentPhase')
         /\ res' = Result("advancePhase", Ok)
         /\ UNCHANGED <<now, merkleRoot, airdropNullifiers, airdropUserData,
                        claimed, totalRegistered, totalClaimed, totalDistributed,
                        airdropTokenBalance, AirFrame>>

\* setMerkleRoot(_merkleRoot)
setMerkleRoot(sender, root) ==
    IF onlyOwnerErr(sender) # Ok
    THEN Revert("setMerkleRoot", onlyOwnerErr(sender), <<now, airVars, AirFrame>>)
    ELSE /\ merkleRoot' = root
         /\ res' = Result("setMerkleRoot", Ok)
         /\ UNCHANGED <<now, currentPhase, airdropNullifiers, airdropUserData,
                        claimed, totalRegistered, totalClaimed, totalDistributed,
                        airdropTokenBalance, phaseChangedLog, AirFrame>>

\* The error recoverTokens reverts with, or Ok (the token is the airdrop's).
recoverTokensErr(sender, amount) ==
    IF onlyOwnerErr(sender) # Ok THEN onlyOwnerErr(sender)
    ELSE IF airdropTokenBalance[AirdropContract] < amount
         THEN "Insufficient balance"
    ELSE Ok

\* recoverTokens(_token, _amount)
recoverTokens(sender, amount) ==
    LET err == recoverTokensErr(sender, amount) IN
    IF err # Ok
    THEN Revert("recoverTokens", err, <<now, airVars, AirFrame>>)
    ELSE /\ airdropTokenBalance' =
                [airdropTokenBalance EXCEPT ![AirdropContract] = @ - amount,
                                            ![Owner] = @ + amount]
         /\ res' = Result("recoverTokens", Ok)
         /\ UNCHANGED <<now, currentPhase, merkleRoot, airdropNullifiers,
                        airdropUserData, claimed, totalRegistered, totalClaimed,
                        totalDistributed, phaseChangedLog, AirFrame>>

(***************************************************************************)
(* The production Express backend (index.ts) and its on-chain service      *)
(*                                                                         *)
(* A handler runs without interruption up to an await; a handler suspended *)
(* at the await of an on-chain call sits in requests and is resumed by a   *)
(* later step, so the handlers of concurrent requests interleave there.    *)
(* A read of the chain returns the value of the moment the handler is      *)
(* resumed.  A transaction the handler has sent is executed by the chain  *)
(* in one step, and the handler goes on in a later step, when the await of *)
(* the receipt returns.  A transaction that would revert is refused when   *)
(* the handler sends it and changes nothing on the chain: the await of the *)
(* send throws, and that is the step in which the handler goes on.         *)
(* An answer is recorded in res: ret is the HTTP status, err the message.  *)
(* users maps a userIdentifier to its record.  A suspended handler keeps    *)
(* the record it looked up; when users is given another record for that    *)
(* user meanwhile, the handler's record is detached: what the handler      *)
(* pushes to it no longer shows in users.  Strings that are searched are   *)
(* sequences of characters.                                                *)
(***************************************************************************)
MICROLOAN_MIN_REPUTATION == 50
GOVERNANCE_MIN_REPUTATION == 100
\* The record handleMicroloan and handleGovernance create for an unknown user.
MICROLOAN_DEMO_REPUTATION == 50
GOVERNANCE_DEMO_REPUTATION == 100

\* SERVICE_REQUIREMENTS of the frontend (lib/utils.ts)
SERVICE_REQUIREMENTS ==
    [MICROLOAN |-> [minScore |-> 50], AIRDROP |-> [minScore |-> 0],
     GOVERNANCE |-> [minScore |-> 100], REMITTANCE |-> [minScore |-> 0]]

\* attestationTypes of handleAddAttestation: the score of each type
attestationTypes ==
    [village_elder |-> 50, merchant_voucher |-> 30, savings_group |-> 40,
     education_completion |-> 35, business_owner |-> 45]

\* The members every object inherits from Object.prototype: the lookup
\* attestationTypes[attestationType] finds them as well, and they are truthy.
ObjectPrototype ==
    {"constructor", "toString", "toLocaleString", "valueOf", "hasOwnProperty",
     "isPrototypeOf", "propertyIsEnumerable", "__proto__", "__defineGetter__",
     "__defineSetter__", "__lookupGetter__", "__lookupSetter__"}

\* Among the numbers of the backend, which are never negative: NaN, and the
\* undefined that is the score of an inherited member.
NaN == 0 - 1
UndefinedScore == 0 - 2

\* a + b, a < b and Math.min(a, b) of JavaScript numbers: a sum with
\* undefined or NaN is NaN, a comparison with NaN is false, and the minimum
\* with NaN is NaN.
JsPlus(a, b) ==
    IF {a, b} \cap {NaN, UndefinedScore} # {} THEN NaN ELSE a + b
JsLess(a, b) == a # NaN /\ b # NaN /\ a < b
MathMin(a, b) == IF NaN \in {a, b} THEN NaN ELSE IF a < b THEN a ELSE b

\* String.prototype.includes
Includes(str, sub) ==
    \E i \in 0..(Len(str) - Len(sub)) : SubSeq(str, i + 1, i + Len(sub)) = sub

\* Date.now(), as it is written into an id
DateNow == ToString(now)

\* The airdropId values of the requests: "monthly" (the default) and "month".
Monthly == <<"m", "o", "n", "t", "h", "l", "y">>
Month == <<"m", "o", "n", "t", "h">>
AirdropIdChoices == {Monthly, Month}
Claims == Addr \X AirdropIdChoices

\* Values of a JSON body: a boolean and a missing field, written as strings.
JsTrue == "true"
JsFalse == "false"
JsUndefined == "undefined"

\* value || "Yes"
OrYes(value) == IF value \in {JsFalse, JsUndefined, ""} THEN "Yes" ELSE value

\* `$${amount}` for an amount counted in half dollars: 150 is "$75", 151 is
\* "$75.5", NaN is "$NaN".
Dollars(halves) ==
    IF halves = NaN THEN "$NaN"
    ELSE "$" \o ToString(halves \div 2) \o (IF halves % 2 = 1 THEN ".5" ELSE "")

\* The on-chain call a handler awaits first.
FirstAwait ==
    [handleVerification |-> "checkIdentityOnChain",
     handleAddAttestation |-> "addAttestation",
     handleAirdrop |-> "currentPhase",
     handleGovernance |-> "castVote",
     handleGetProfile |-> "getUserOnChainData"]

\* A handler suspended at an await: the call it awaits (pc), whose record it
\* holds, whether that record is detached and the reputationScore the
\* detached record has, and its arguments.
Request(handler, user, airdropId, proposalId, choice) ==
    [handler |-> handler, pc |-> FirstAwait[handler],
     userIdentifier |-> user.userIdentifier,
     detached |-> FALSE, heldScore |-> 0, airdropId |-> airdropId,
     proposalId |-> proposalId, vote |-> choice, points |-> 0]
Idle == [handler |-> "idle", pc |-> "", userIdentifier |-> 0,
         detached |-> FALSE, heldScore |-> 0, airdropId |-> <<>>,
         proposalId |-> 0, vote |-> "", points |-> 0]
Slots == 1..MaxRequests
\* The slot a new request takes.
FreeSlot == CHOOSE r \in Slots : requests[r] = Idle /\ \A q \in 1..(r - 1) : requests[q] # Idle

Response(op, status, message, args) ==
    [op |-> op, err |-> message, ret |-> status, args |-> args]

\* The backend after its start, signing with the key of address w.
BackendStart(w) ==
    /\ users = <<>>
    /\ nullifierToUser = <<>>
    /\ requests = [r \in Slots |-> Idle]
    /\ airdropPayouts = [c \in Claims |-> 0]
    /\ airdropSucceeded = [c \in Claims |-> 0]
    /\ wallet = w
    /\ started = 0

\* The backend that signs with the deployer's key.
BackendInit == BackendStart(Owner)

\* Map.prototype.set
MapSet(map, key, value) ==
    [k \in DOMAIN map \cup {key} |-> IF k = key THEN value ELSE map[k]]

\* A new User object.
NewUser(nullifier, userIdentifier, reputationScore) ==
    [nullifier |-> nullifier,
     userIdentifier |-> userIdentifier, reputationScore |-> reputationScore,
     attestations |-> <<>>, transactions |-> <<>>, createdAt |-> now]

\* users.get(userIdentifier), or the minimal record a handler creates and
\* stores when there is none.
GetOrCreate(userIdentifier, reputationScore) ==
    IF userIdentifier \in DOMAIN users THEN users[userIdentifier]
    ELSE NewUser(<<"unknown_", DateNow>>, userIdentifier, reputationScore)

\* user.transactions.push(tx) on the record a resumed handler holds.
PushTransaction(req, tx) ==
    IF req.detached THEN users
    ELSE [users EXCEPT ![req.userIdentifier].transactions = Append(@, tx)]

\* users.set(userIdentifier, newUser) detaches the records that suspended
\* handlers hold for that user.
Detach(userIdentifier) ==
    [r \in Slots |->
        IF requests[r].userIdentifier = userIdentifier /\ ~requests[r].detached
        THEN [requests[r] EXCEPT
                 !.detached = TRUE,
                 !.heldScore = users[userIdentifier].reputationScore]
        ELSE requests[r]]

\* user.reputationScore of the record a suspended handler holds.
HeldScore(req) ==
    IF req.detached THEN req.heldScore
    ELSE users[req.userIdentifier].reputationScore

\* What selfBackendVerifier.verify does: it returns a valid or an invalid
\* result, or throws an Error with a message, or throws another value.
VerifyValid == [kind |-> "valid", message |-> <<>>]
VerifyInvalid == [kind |-> "invalid", message |-> <<>>]
VerifyThrows(message) == [kind |-> "throws", message |-> message]
VerifyThrowsValue == [kind |-> "throwsValue", message |-> <<>>]

\* The string of a sequence of characters.
RECURSIVE Str(_)
Str(chars) == IF chars = <<>> THEN "" ELSE Head(chars) \o Str(Tail(chars))

\* The message of handleVerification's 500 answer for what verify threw.
VerificationErrorMessage(outcome) ==
    IF outcome.kind # "throws" THEN "Verification failed"
    ELSE IF Includes(outcome.message, <<"s", "c", "o", "p", "e">>)
         THEN "Scope mismatch between frontend and backend"
    ELSE IF Includes(outcome.message, <<"c", "o", "n", "f", "i", "g">>)
         THEN "Configuration mismatch"
    ELSE IF Includes(outcome.message, <<"p", "r", "o", "o", "f">>)
         THEN "Invalid zero-knowledge proof"
    ELSE Str(outcome.message)

\* handleVerification without its check of nullifierToUser.has(nullifier).
handleVerification_NoDuplicateCheck(fields, outcome, nullifier, userIdentifier) ==
    LET key == IF nullifier # 0 THEN nullifier ELSE userIdentifier
        newUser == NewUser(<<ToString(key)>>, userIdentifier, 0)
        answer(status, message, args) ==
            /\ res' = Response("handleVerification", status, message, args)
            /\ UNCHANGED <<now, backVars, airVars, BackFrame>>
    IN  IF ~fields THEN answer(400, "Missing required fields", <<>>)
        ELSE IF outcome.kind \in {"throws", "throwsValue"}
             THEN answer(500, VerificationErrorMessage(outcome), <<>>)
        ELSE IF outcome.kind = "invalid"
             THEN answer(400, "Self Protocol verification failed", <<>>)
        ELSE /\ \E r \in Slots : requests[r] = Idle
             /\ users' = MapSet(users, userIdentifier, newUser)
             /\ nullifierToUser' = MapSet(nullifierToUser, key, userIdentifier)
             /\ requests' = [Detach(userIdentifier) EXCEPT ![FreeSlot] =
                    Request("handleVerification", newUser, <<>>, 0, "")]
             /\ UNCHANGED <<now, res, airdropPayouts, airdropSucceeded, airVars,
                            BackFrame>>

\* handleVerification up to its await of checkIdentityOnChain: fields tells
\* whether the four fields are in the body, outcome what
\* selfBackendVerifier.verify does; nullifier 0 is a missing
\* discloseOutput.nullifier.  A valid verification of a new nullifier writes
\* the two maps and is suspended, unanswered.
handleVerification(fields, outcome, nullifier, userIdentifier) ==
    LET key == IF nullifier # 0 THEN nullifier ELSE userIdentifier
        newUser == NewUser(<<ToString(key)>>, userIdentifier, 0)
        answer(status, message, args) ==
            /\ res' = Response("handleVerification", status, message, args)
            /\ UNCHANGED <<now, backVars, airVars, BackFrame>>
    IN  IF ~fields THEN answer(400, "Missing required fields", <<>>)
        ELSE IF outcome.kind \in {"throws", "throwsValue"}
             THEN answer(500, VerificationErrorMessage(outcome), <<>>)
        ELSE IF outcome.kind = "invalid"
             THEN answer(400, "Self Protocol verification failed", <<>>)
        ELSE IF key \in DOMAIN nullifierToUser
             THEN answer(409, "Identity already registered (duplicate nullifier)",
                         <<key, userIdentifier>>)
        ELSE /\ \E r \in Slots : requests[r] = Idle
             /\ users' = MapSet(users, userIdentifier, newUser)
             /\ nullifierToUser' = MapSet(nullifierToUser, key, userIdentifier)
             /\ requests' = [Detach(userIdentifier) EXCEPT ![FreeSlot] =
                    Request("handleVerification", newUser, <<>>, 0, "")]
             /\ UNCHANGED <<now, res, airdropPayouts, airdropSucceeded, airVars,
                            BackFrame>>

\* The rest of handleVerification: checkIdentityOnChain only reads the chain,
\* and whether it succeeds or throws the handler answers 200.
handleVerificationResume(slot) ==
    /\ requests[slot].handler = "handleVerification"
    /\ requests' = [requests EXCEPT ![slot] = Idle]
    /\ res' = Response("handleVerification", 200, Ok,
                       <<requests[slot].userIdentifier>>)
    /\ UNCHANGED <<now, users, nullifierToUser, airdropPayouts,
                   airdropSucceeded, airVars, BackFrame>>

\* handleAddAttestation up to its await of addAttestationOnChain: the
\* attestation is pushed to the user's record and the reputationScore raised
\* before the transaction is sent; the handler is suspended, unanswered.
\* For an attestationType that names a member of Object.prototype the lookup
\* is truthy and its score undefined: the reputationScore becomes NaN, and
\* points takes the default of addAttestationOnChain, 5.
handleAddAttestation(userIdentifier, attestationType) ==
    IF userIdentifier \notin DOMAIN users
    THEN /\ res' = Response("handleAddAttestation", 404, "User not found",
                            <<userIdentifier>>)
         /\ UNCHANGED <<now, backVars, airVars, idVars, govVars, lendVars>>
    ELSE IF attestationType \notin DOMAIN attestationTypes \cup ObjectPrototype
    THEN /\ res' = Response("handleAddAttestation", 400,
                            "Invalid attestation type", <<userIdentifier>>)
         /\ UNCHANGED <<now, backVars, airVars, idVars, govVars, lendVars>>
    ELSE LET score == IF attestationType \in DOMAIN attestationTypes
                      THEN attestationTypes[attestationType]
                      ELSE UndefinedScore
             points == IF score = UndefinedScore THEN 5 ELSE score IN
         /\ \E r \in Slots : requests[r] = Idle
         /\ users' = [users EXCEPT ![userIdentifier] =
                [@ EXCEPT !.attestations =
                              Append(@, [type |-> attestationType, score |-> score]),
                          !.reputationScore = JsPlus(@, score)]]
         /\ requests' = [requests EXCEPT ![FreeSlot] =
                [Request("handleAddAttestation", users[userIdentifier], <<>>,
                         0, "") EXCEPT !.points = points]]
         /\ UNCHANGED <<now, res, nullifierToUser, airdropPayouts,
                        airdropSucceeded, airVars, BackFrame>>

\* addAttestationOnChain(userAddress, points): the wallet's addAttestation
\* on UnbankedIdentity is executed, and the handler waits for the receipt; a
\* transaction that reverts is caught by the handler, which answers 200.
addAttestationOnChain(slot) ==
    LET req == requests[slot]
        userAddress == req.userIdentifier IN
    /\ req.handler = "handleAddAttestation"
    /\ req.pc = "addAttestation"
    /\ IF addAttestationErr(wallet, userAddress, req.points) # Ok
       THEN /\ requests' = [requests EXCEPT ![slot] = Idle]
            /\ res' = Response("handleAddAttestation", 200, Ok,
                               <<req.userIdentifier>>)
            /\ UNCHANGED idVars
       ELSE /\ userData' = [userData EXCEPT ![userAddress] =
                   [@ EXCEPT !.attesters = @ \cup {wallet},
                             !.attestationCount = @ + 1,
                             !.reputationScore = @ + req.points]]
            /\ totalAttestations' = totalAttestations + 1
            /\ requests' = [requests EXCEPT ![slot].pc = "tx.wait"]
            /\ UNCHANGED <<res, nullifierToUserIdentifier, totalUsers,
                           userRegisteredLog>>
    /\ UNCHANGED <<now, users, nullifierToUser, airdropPayouts,
                   airdropSucceeded, wallet, airVars, govVars, lendVars>>

\* The rest of handleAddAttestation, after the receipt of the transaction:
\* the handler answers 200.
handleAddAttestationResume(slot) ==
    LET req == requests[slot] IN
    /\ req.handler = "handleAddAttestation"
    /\ req.pc = "tx.wait"
    /\ requests' = [requests EXCEPT ![slot] = Idle]
    /\ res' = Response("handleAddAttestation", 200, Ok, <<req.userIdentifier>>)
    /\ UNCHANGED <<now, users, nullifierToUser, airdropPayouts,
                   airdropSucceeded, airVars, BackFrame>>

\* handleMicroloan; amounts are in half dollars (reputationScore * 0.5),
\* requestedAmount 0 is a missing one.
handleMicroloan(userIdentifier, requestedAmount) ==
    LET user == GetOrCreate(userIdentifier, MICROLOAN_DEMO_REPUTATION)
        stored == MapSet(users, userIdentifier, user)
        maxLoanAmount == MathMin(JsPlus(50 * 2, user.reputationScore), 500 * 2)
        wanted == IF requestedAmount # 0 THEN requestedAmount * 2 ELSE maxLoanAmount
        approvedAmount == MathMin(wanted, maxLoanAmount)
        loanTransaction ==
            [id |-> <<"l", "o", "a", "n", "_", DateNow>>, type |-> "microloan",
             amount |-> Dollars(approvedAmount)]
    IN  /\ IF JsLess(user.reputationScore, MICROLOAN_MIN_REPUTATION)
           THEN /\ users' = stored
                /\ res' = Response("handleMicroloan", 403,
                                   "Insufficient reputation", <<userIdentifier>>)
           ELSE /\ users' = [stored EXCEPT ![userIdentifier].transactions =
                                 Append(@, loanTransaction)]
                /\ res' = Response("handleMicroloan", 200, "Microloan approved",
                                   <<userIdentifier>>)
        /\ UNCHANGED <<now, nullifierToUser, requests, airdropPayouts,
                       airdropSucceeded, airVars, BackFrame>>

\* handleAirdrop up to its await of claimAirdropOnChain, in the free slot.
handleAirdrop(userIdentifier, airdropId) ==
    LET user == GetOrCreate(userIdentifier, 0)
        existingClaim ==
            \E k \in 1..Len(user.transactions) :
                /\ user.transactions[k].type = "airdrop"
                /\ Includes(user.transactions[k].id, airdropId)
    IN  /\ users' = MapSet(users, userIdentifier, user)
        /\ IF existingClaim
           THEN /\ res' = Response("handleAirdrop", 409, "Airdrop already claimed",
                                   <<userIdentifier, airdropId>>)
                /\ UNCHANGED requests
           ELSE /\ \E r \in Slots : requests[r] = Idle
                /\ requests' = [requests EXCEPT ![FreeSlot] =
                       Request("handleAirdrop", user, airdropId, 0, "")]
                /\ UNCHANGED res
        /\ UNCHANGED <<now, nullifierToUser, airdropPayouts, airdropSucceeded,
                       airVars, BackFrame>>

\* claimAirdropOnChain at an await of contracts.airdrop.currentPhase(): the
\* read before the loop (pc "currentPhase"), the test of the loop (pc "while")
\* and the read that is logged after an advancePhase (pc "advanced").
claimAirdropOnChainCurrentPhase(slot) ==
    LET req == requests[slot]
        next == IF req.pc = "advanced" THEN "while"
                ELSE IF currentPhase >= Claim THEN "claimed"
                ELSE IF req.pc = "currentPhase" THEN "while"
                ELSE "advancePhase"
    IN  /\ req.handler = "handleAirdrop"
        /\ req.pc \in {"currentPhase", "while", "advanced"}
        /\ requests' = [requests EXCEPT ![slot].pc = next]
        /\ UNCHANGED <<now, res, users, nullifierToUser, airdropPayouts,
                       airdropSucceeded, airVars, BackFrame>>

\* claimAirdropOnChain in its loop.  At pc "advancePhase" the advancePhase
\* transaction that the wallet has sent after reading a phase below 2 is
\* executed, in whatever phase the contract is by then; from a wallet that
\* is not the owner it reverts, which ends the loop, and the claim goes on.
\* At pc "advanceTx.wait" the receipt has come.
claimAirdropOnChainAdvance(slot) ==
    /\ requests[slot].handler = "handleAirdrop"
    /\ requests[slot].pc \in {"advancePhase", "advanceTx.wait"}
    /\ IF requests[slot].pc = "advanceTx.wait"
       THEN /\ requests' = [requests EXCEPT ![slot].pc = "advanced"]
            /\ UNCHANGED <<currentPhase, phaseChangedLog>>
       ELSE IF onlyOwnerErr(wallet) # Ok
       THEN /\ requests' = [requests EXCEPT ![slot].pc = "claimed"]
            /\ UNCHANGED <<currentPhase, phaseChangedLog>>
       ELSE /\ currentPhase' = IF currentPhase = Setup THEN Registration
                               ELSE IF currentPhase = Registration THEN Claim
                               ELSE IF currentPhase = Claim THEN Ended
                               ELSE currentPhase
            /\ phaseChangedLog' = Append(phaseChangedLog, currentPhase')
            /\ requests' = [requests EXCEPT ![slot].pc = "advanceTx.wait"]
    /\ UNCHANGED <<now, res, merkleRoot, airdropNullifiers, airdropUserData,
                   claimed, totalRegistered, totalClaimed, totalDistributed,
                   airdropTokenBalance, users, nullifierToUser, airdropPayouts,
                   airdropSucceeded, BackFrame>>

\* claimAirdropOnChain at its await of contracts.airdrop.claimed(userAddress):
\* for an address that has claimed it throws, and handleAirdrop answers 400
\* with the message.
claimAirdropOnChainClaimed(slot) ==
    LET req == requests[slot] IN
    /\ req.handler = "handleAirdrop"
    /\ req.pc = "claimed"
    /\ IF req.userIdentifier \in claimed
       THEN /\ requests' = [requests EXCEPT ![slot] = Idle]
            /\ res' = Response("handleAirdrop", 400, "Airdrop already claimed",
                               <<req.userIdentifier, req.airdropId>>)
       ELSE /\ requests' = [requests EXCEPT ![slot].pc = "isUserRegistered"]
            /\ UNCHANGED res
    /\ UNCHANGED <<now, users, nullifierToUser, airdropPayouts,
                   airdropSucceeded, airVars, BackFrame>>

\* claimAirdropOnChain at its await of
\* contracts.airdrop.isUserRegistered(userAddress): for an address that is
\* not registered the wallet sends a transfer of 100 tokens, for a
\* registered one its own claimAirdrop.
claimAirdropOnChainRegistered(slot) ==
    LET req == requests[slot] IN
    /\ req.handler = "handleAirdrop"
    /\ req.pc = "isUserRegistered"
    /\ requests' = [requests EXCEPT ![slot].pc =
           IF airdropUserData[req.userIdentifier].isRegistered
           THEN "claimAirdrop" ELSE "transfer"]
    /\ UNCHANGED <<now, res, users, nullifierToUser, airdropPayouts,
                   airdropSucceeded, airVars, BackFrame>>

\* The transaction claimAirdropOnChain has sent is executed: the wallet's
\* token.transfer to userAddress (pc "transfer") or the wallet's claimAirdrop
\* (pc "claimAirdrop"), and claimAirdropOnChain waits for the receipt.  When
\* the transaction reverts the message is replaced and handleAirdrop answers
\* 400.
claimAirdropOnChainTransaction(slot) ==
    LET req == requests[slot]
        userAddress == req.userIdentifier
        claim == <<req.userIdentifier, req.airdropId>>
        reverted ==
            IF req.pc = "transfer"
            THEN airdropTokenBalance[wallet] < 100 * ONE_TOKEN
            ELSE claimAirdropErr(wallet, <<>>, 0) # Ok
        amount == claimTotalAmount(wallet, <<>>, 0)
    IN  /\ req.handler = "handleAirdrop"
        /\ req.pc \in {"transfer", "claimAirdrop"}
        /\ IF reverted
           THEN /\ requests' = [requests EXCEPT ![slot] = Idle]
                /\ res' = Response("handleAirdrop", 400,
                                   "Airdrop contract requires Self Protocol registration. Demo limitations apply.",
                                   claim)
                /\ UNCHANGED <<airdropPayouts, airVars>>
           ELSE /\ requests' = [requests EXCEPT ![slot].pc = "tx.wait"]
                /\ airdropPayouts' = [airdropPayouts EXCEPT ![claim] = @ + 1]
                /\ IF req.pc = "transfer"
                   THEN /\ airdropTokenBalance' =
                               IF userAddress = wallet THEN airdropTokenBalance
                               ELSE [airdropTokenBalance EXCEPT
                                        ![wallet] = @ - 100 * ONE_TOKEN,
                                        ![userAddress] = @ + 100 * ONE_TOKEN]
                        /\ UNCHANGED <<airdropUserData, claimed, totalClaimed,
                                       totalDistributed>>
                   ELSE /\ airdropUserData' =
                               [airdropUserData EXCEPT ![wallet].hasClaimed = TRUE]
                        /\ claimed' = claimed \cup {wallet}
                        /\ totalClaimed' = totalClaimed + 1
                        /\ totalDistributed' = totalDistributed + amount
                        /\ airdropTokenBalance' =
                               [airdropTokenBalance EXCEPT
                                   ![AirdropContract] = @ - amount,
                                   ![wallet] = @ + amount]
                /\ UNCHANGED <<res, currentPhase, merkleRoot, airdropNullifiers,
                               totalRegistered, phaseChangedLog>>
        /\ UNCHANGED <<now, users, nullifierToUser, airdropSucceeded, BackFrame>>

\* The rest of handleAirdrop, after the receipt of the transaction: the
\* handler pushes the airdrop transaction to the record it holds and
\* answers 200.
handleAirdropResume(slot) ==
    LET req == requests[slot]
        claim == <<req.userIdentifier, req.airdropId>>
        airdropTransaction ==
            [id |-> <<"a", "i", "r", "d", "r", "o", "p", "_">> \o req.airdropId
                        \o <<"_", DateNow>>,
             type |-> "airdrop", amount |-> "100 TOKENS"]
    IN  /\ req.handler = "handleAirdrop"
        /\ req.pc = "tx.wait"
        /\ requests' = [requests EXCEPT ![slot] = Idle]
        /\ users' = PushTransaction(req, airdropTransaction)
        /\ airdropSucceeded' = [airdropSucceeded EXCEPT ![claim] = @ + 1]
        /\ res' = Response("handleAirdrop", 200,
                           "Airdrop claimed successfully on-chain", claim)
        /\ UNCHANGED <<now, nullifierToUser, airdropPayouts, airVars, BackFrame>>

\* handleGovernance up to its await of castVoteOnChain, in the free slot;
\* vote is the body's vote.
handleGovernance(userIdentifier, proposalId, choice) ==
    LET user == GetOrCreate(userIdentifier, GOVERNANCE_DEMO_REPUTATION) IN
    /\ users' = MapSet(users, userIdentifier, user)
    /\ IF JsLess(user.reputationScore, GOVERNANCE_MIN_REPUTATION)
       THEN /\ res' = Response("handleGovernance", 403,
                               "Insufficient reputation for governance",
                               <<userIdentifier>>)
            /\ UNCHANGED requests
       ELSE /\ \E r \in Slots : requests[r] = Idle
            /\ requests' = [requests EXCEPT ![FreeSlot] =
                   Request("handleGovernance", user, <<>>, proposalId, choice)]
            /\ UNCHANGED res
    /\ UNCHANGED <<now, nullifierToUser, airdropPayouts, airdropSucceeded,
                   airVars, BackFrame>>

\* The rest of handleGovernance.  castVoteOnChain calls castVote, which
\* UnbankedGovernance does not have: the call fails, the handler catches it,
\* pushes the vote transaction with amount vote || "Yes" and answers 200.
handleGovernanceResume(slot) ==
    LET req == requests[slot]
        voteTransaction ==
            [id |-> <<"v", "o", "t", "e", "_", ToString(req.proposalId), "_",
                      DateNow>>,
             type |-> "governance", amount |-> OrYes(req.vote)]
    IN  /\ req.handler = "handleGovernance"
        /\ requests' = [requests EXCEPT ![slot] = Idle]
        /\ users' = PushTransaction(req, voteTransaction)
        /\ res' = Response("handleGovernance", 200,
                           "Vote recorded successfully on-chain",
                           <<req.userIdentifier>>)
        /\ UNCHANGED <<now, nullifierToUser, airdropPayouts, airdropSucceeded,
                       airVars, BackFrame>>

\* handleGetProfile up to its await of getUserOnChainData, in the free slot:
\* the record it creates for an unknown user is stored before the await.
handleGetProfile(userIdentifier) ==
    LET user == GetOrCreate(userIdentifier, 0) IN
    /\ \E r \in Slots : requests[r] = Idle
    /\ users' = MapSet(users, userIdentifier, user)
    /\ requests' = [requests EXCEPT ![FreeSlot] =
           Request("handleGetProfile", user, <<>>, 0, "")]
    /\ UNCHANGED <<now, res, nullifierToUser, airdropPayouts,
                   airdropSucceeded, airVars, BackFrame>>

\* The rest of handleGetProfile: getUserOnChainData only reads the chain,
\* and whether it succeeds or fails the handler answers 200.
handleGetProfileResume(slot) ==
    /\ requests[slot].handler = "handleGetProfile"
    /\ requests' = [requests EXCEPT ![slot] = Idle]
    /\ res' = Response("handleGetProfile", 200, Ok,
                       <<requests[slot].userIdentifier>>)
    /\ UNCHANGED <<now, users, nullifierToUser, airdropPayouts,
                   airdropSucceeded, airVars, BackFrame>>

\* The status handleMicroloan answers a request of the user with, in the
\* current state.
MicroloanStatus(userIdentifier) ==
    IF JsLess(GetOrCreate(userIdentifier, MICROLOAN_DEMO_REPUTATION).reputationScore,
              MICROLOAN_MIN_REPUTATION)
    THEN 403 ELSE 200

\* The status handleGovernance answers a request of the user with, in the
\* current state: 403, or 200 after castVoteOnChain.
GovernanceStatus(userIdentifier) ==
    IF JsLess(GetOrCreate(userIdentifier, GOVERNANCE_DEMO_REPUTATION).reputationScore,
              GOVERNANCE_MIN_REPUTATION)
    THEN 403 ELSE 200

\* Whether handleAirdrop answers a request with 409 in the current state.
AirdropRefused(userIdentifier, airdropId) ==
    LET user == GetOrCreate(userIdentifier, 0) IN
    \E k \in 1..Len(user.transactions) :
        /\ user.transactions[k].type = "airdrop"
        /\ Includes(user.transactions[k].id, airdropId)

(***************************************************************************)
(* The clock                                                               *)
(***************************************************************************)
Tick ==
    /\ now < MaxTime
    /\ now' = now + 1
    /\ UNCHANGED <<res, idVars, govVars, lendVars, airVars, backVars, started>>

\* In the lending specifications time passes days at a time, up to LendMaxTime.
LendMaxTime == 2 * TickDays * DAY

Advance(days) ==
    /\ now + days * DAY <= LendMaxTime
    /\ now' = now + days * DAY
    /\ UNCHANGED <<res, idVars, govVars, lendVars, airVars, backVars, started>>

(***************************************************************************)
(* The identity contract on its own                                        *)
(***************************************************************************)
PointChoices == {MIN_ATTESTATION_POINTS - 1, MIN_ATTESTATION_POINTS,
                 MAX_ATTESTATION_POINTS, MAX_ATTESTATION_POINTS + 1}

EnvInit == now = 0 /\ res = Result("constructor", Ok)

Init ==
    /\ EnvInit /\ IdentityInit /\ GovernanceInit /\ LendingInit /\ AirdropInit
    /\ BackendInit

Register ==
    \E n \in Nullifiers, u \in UserIds, len \in {0, 1} :
        totalUsers < MaxUsers /\ customVerificationHook(n, u, len)

Attest ==
    \E s \in Addr, u \in Addr, p \in PointChoices : addAttestation(s, u, p)

Next == Register \/ Attest \/ Tick

Spec == Init /\ [][Next]_vars

(***************************************************************************)
(* The governance contract, with the identity contract it reads            *)
(***************************************************************************)
DurationDayChoices == {0, 1}
MinReputationChoices == {0, 50}

\* A voter verifies with a nullifier, and again with another one, which
\* registers the address anew.
GovRegister ==
    \E n \in Nullifiers, u \in Addr :
        totalUsers < MaxUsers /\ customVerificationHook(n, u, 0)

GovAttest ==
    \E s \in Addr : \E u \in Addr \ {s} :
        addAttestation(s, u, MAX_ATTESTATION_POINTS)

CreateProposal ==
    \E s \in Addr, d \in DurationDayChoices, m \in MinReputationChoices :
        nextProposalId <= MaxProposals /\ createProposal(s, "proposal", d, m)

Vote == \E s \in Addr, p \in PIds, b \in BOOLEAN : vote(s, p, b)

ExecuteProposal == \E s \in Addr, p \in PIds : executeProposal(s, p)

GovNext ==
    GovRegister \/ GovAttest \/ CreateProposal \/ Vote \/ ExecuteProposal \/ Tick

SpecGov == Init /\ [][GovNext]_vars

(***************************************************************************)
(* The lending contract's loan cap: requestLoan, approveLoan, repayLoan    *)
(* and markAsDefaulted by any caller, with the identity contract it reads  *)
(***************************************************************************)
AmountChoices == {MIN_LOAN_AMOUNT - 1, MIN_LOAN_AMOUNT, MAX_LOAN_AMOUNT,
                  MAX_LOAN_AMOUNT + 1}
DurationChoices == {MIN_LOAN_DURATION - 1, MIN_LOAN_DURATION,
                    MAX_LOAN_DURATION + 1}
RepayChoices == {0, 2 * MIN_LOAN_AMOUNT}
MaxPool == 4 * MIN_LOAN_AMOUNT

\* The owner lends and administers; the other addresses verify and borrow.
Borrowers == Addr \ {Owner}

\* The lending contract with either token, the other contracts as deployed.
LendInit ==
    /\ EnvInit /\ IdentityInit /\ GovernanceInit /\ AirdropInit /\ BackendInit
    /\ \E token \in LendingTokens :
           LendingStart([a \in Addr |-> NoProfile], token)

\* The collateral held for the loans ids, and the collateral credited to the
\* borrowers of holders.
RECURSIVE SumCollateralAmount(_)
SumCollateralAmount(ids) ==
    IF ids = {} THEN 0
    ELSE LET i == CHOOSE x \in ids : TRUE IN
         loans[i].collateralAmount + SumCollateralAmount(ids \ {i})

RECURSIVE SumCollateralBalances(_)
SumCollateralBalances(holders) ==
    IF holders = {} THEN 0
    ELSE LET b == CHOOSE x \in holders : TRUE IN
         collateralBalances[b] + SumCollateralBalances(holders \ {b})

\* scripts/deploy.js: the deployer sends tokens straight to the lending
\* contract; here at any time, an amount the owner has or one they have not.
TransferChoices == {MIN_LOAN_AMOUNT, (OwnerTokens + 1) * ONE_TOKEN}

LendTransfer ==
    \E a \in TransferChoices :
        /\ directTransfers < MaxDirectTransfers * MIN_LOAN_AMOUNT
        /\ lendingTokenTransfer(Owner, LendingContract, a)

LendRegister ==
    \E u \in Borrowers \cap Nullifiers :
        totalUsers < MaxUsers /\ customVerificationHook(u, u, 0)

LendAttest ==
    \E u \in Borrowers : \E s \in Addr \ {u} :
        addAttestation(s, u, MAX_ATTESTATION_POINTS)

FundPool ==
    \E a \in {0, MaxPool} :
        totalPoolFunds + a <= MaxPool /\ fundPool(Owner, a)

RequestLoan ==
    \E s \in Addr, a \in AmountChoices, d \in DurationChoices :
        loanCounter < MaxLoans /\ requestLoan(s, a, d)

ApproveLoan == \E s \in Addr, i \in LoanIds : approveLoan(s, i)

RepayLoan == \E s \in Addr, i \in LoanIds, a \in RepayChoices : repayLoan(s, i, a)

MarkAsDefaulted == \E s \in Addr, i \in LoanIds : markAsDefaulted(s, i)

SetBorrowerBan ==
    \E s \in Addr, b \in Borrowers, banned \in BOOLEAN : setBorrowerBan(s, b, banned)

CapTick == Advance(2 * TickDays)

CapNext ==
    \/ LendRegister \/ LendAttest \/ FundPool \/ RequestLoan \/ ApproveLoan
    \/ RepayLoan \/ MarkAsDefaulted \/ SetBorrowerBan \/ LendTransfer
    \/ CapTick

SpecLoanCap == LendInit /\ [][CapNext]_vars

(***************************************************************************)
(* The lending contract on a few loans, collateral and withdrawals included *)
(***************************************************************************)
PartialRepayChoices == {0, MIN_LOAN_AMOUNT \div 2, 2 * MIN_LOAN_AMOUNT}
CollateralChoices == {0, (MIN_LOAN_AMOUNT * COLLATERAL_RATIO) \div 100}
WithdrawChoices == {MIN_LOAN_AMOUNT, MaxPool + 1}

LendRequestLoan ==
    \E s \in Addr, a \in AmountChoices, d \in DurationChoices :
        loanCounter < MaxOpenLoans /\ requestLoan(s, a, d)

\* The loans there can be, and an id no loan has.
LendLoanIds == 1..(MaxOpenLoans + 1)

FundChoices == {0, 2 * MIN_LOAN_AMOUNT}

LendFundPool ==
    \E a \in FundChoices :
        totalPoolFunds + a <= MaxOpenLoans * MIN_LOAN_AMOUNT /\ fundPool(Owner, a)

LendApproveLoan == \E s \in Addr, i \in LendLoanIds : approveLoan(s, i)

LendRepayLoan ==
    \E s \in Addr, i \in LendLoanIds, a \in PartialRepayChoices :
        repayLoan(s, i, a)

DepositCollateral ==
    \E s \in Addr, i \in LendLoanIds, a \in CollateralChoices :
        depositCollateral(s, i, a)

LendMarkAsDefaulted == \E s \in Addr, i \in LendLoanIds : markAsDefaulted(s, i)

WithdrawFromPool ==
    \E s \in Addr, a \in WithdrawChoices : withdrawFromPool(s, a)

LendTick == Advance(TickDays)

LendNext ==
    \/ LendRegister \/ LendAttest \/ LendFundPool \/ LendRequestLoan
    \/ LendApproveLoan \/ LendRepayLoan \/ DepositCollateral
    \/ LendMarkAsDefaulted \/ WithdrawFromPool \/ LendTransfer \/ CapTick

SpecLending == LendInit /\ [][LendNext]_vars

(***************************************************************************)
(* The lending contract on one loan, where every call that can be made     *)
(* keeps being made: what the contract's functions can eventually achieve  *)
(***************************************************************************)
CollRequestLoan ==
    \E s \in Addr, a \in AmountChoices, d \in DurationChoices :
        loanCounter < MaxCollateralLoans /\ requestLoan(s, a, d)

CollNext ==
    \/ LendRegister \/ LendAttest \/ LendFundPool \/ CollRequestLoan
    \/ LendApproveLoan \/ LendRepayLoan \/ DepositCollateral
    \/ LendMarkAsDefaulted \/ WithdrawFromPool \/ LendTransfer \/ LendTick

SpecCollateral ==
    /\ LendInit /\ [][CollNext]_vars
    /\ WF_vars(LendRegister) /\ WF_vars(LendAttest) /\ WF_vars(LendFundPool)
    /\ WF_vars(CollRequestLoan) /\ WF_vars(LendApproveLoan)
    /\ WF_vars(LendRepayLoan) /\ WF_vars(DepositCollateral)
    /\ WF_vars(LendMarkAsDefaulted) /\ WF_vars(WithdrawFromPool)
    /\ WF_vars(LendTransfer) /\ WF_vars(LendTick)

(***************************************************************************)
(* The airdrop contract: registrations, claims, bonuses and the phases     *)
(***************************************************************************)
ProofChoices == {<<>>} \cup {<<leaf>> : leaf \in BonusTree}
BonusChoices == {0, COMMUNITY_REFERRAL_BONUS}
\* What a registered early bird claims without a proof.
EarlyBirdClaim == BASE_ALLOCATION + EARLY_BIRD_BONUS

AirRegister ==
    \E n \in Nullifiers, u \in Addr : airdropCustomVerificationHook(n, u)

ClaimAirdrop ==
    \E s \in Addr, proof \in ProofChoices, b \in BonusChoices :
        claimAirdrop(s, proof, b)

AwardReputationBonus ==
    \E u \in Addr \ {Owner} :
        /\ airdropUserData[u].reputationBonus
               < EARLY_BIRD_BONUS + MaxAwards * COMMUNITY_REFERRAL_BONUS
        /\ awardReputationBonus(Owner, u, COMMUNITY_REFERRAL_BONUS)

AdvancePhase ==
    \E s \in Addr : Len(phaseChangedLog) < MaxPhaseEvents /\ advancePhase(s)

SetMerkleRoot == \E root \in {0, BonusRoot} : setMerkleRoot(Owner, root)

RecoverTokens == \E s \in Addr : recoverTokens(s, EarlyBirdClaim)

FundAirdrop ==
    /\ airdropTokenBalance[AirdropContract] < MaxFunding * EarlyBirdClaim
    /\ airdropTokenTransfer(Owner, AirdropContract, EarlyBirdClaim)

AirNext ==
    \/ AirRegister \/ ClaimAirdrop \/ AwardReputationBonus \/ AdvancePhase
    \/ SetMerkleRoot \/ RecoverTokens \/ FundAirdrop

SpecAirdrop == Init /\ [][AirNext]_vars

(***************************************************************************)
(* The backend: requests of every action, interleaved at the awaits, with  *)
(* the airdrop contract the on-chain service calls                         *)
(***************************************************************************)
\* The messages of the Errors that verify throws.
ThrownMessages ==
    {<<"s", "c", "o", "p", "e">>, <<"c", "o", "n", "f", "i", "g">>,
     <<"p", "r", "o", "o", "f">>,
     <<"p", "r", "o", "o", "f", " ", "s", "c", "o", "p", "e">>,
     <<"t", "i", "m", "e", "o", "u", "t">>}
VerifyOutcomes ==
    {VerifyValid, VerifyInvalid, VerifyThrowsValue}
        \cup {VerifyThrows(m) : m \in ThrownMessages}
\* A type of attestationTypes, a name that is no type, and the name of an
\* inherited member.
AttestationTypeChoices == {"village_elder", "landlord", "toString"}
RequestedAmountChoices == {0, 60}

\* The transactions of the record stored for a user, if any.
StoredTransactions(userIdentifier) ==
    IF userIdentifier \in DOMAIN users THEN users[userIdentifier].transactions
    ELSE <<>>

\* The server dispatches a request to its handler; MaxStarted requests are
\* followed.
Dispatch == started < MaxStarted /\ started' = started + 1

\* A body without the fields, and with them every outcome of verify; the
\* nullifier and the user are those of a valid result.
HandleVerification ==
    /\ Dispatch
    /\ \/ handleVerification(FALSE, VerifyValid, 0, Owner)
       \/ \E outcome \in VerifyOutcomes \ {VerifyValid} :
              handleVerification(TRUE, outcome, 0, Owner)
       \/ \E n \in {0} \cup Nullifiers, u \in Addr :
              handleVerification(TRUE, VerifyValid, n, u)

HandleVerificationResume ==
    \E slot \in Slots : handleVerificationResume(slot) /\ UNCHANGED started

HandleAddAttestation ==
    \E u \in Addr, type \in AttestationTypeChoices :
        Dispatch /\ handleAddAttestation(u, type)

AddAttestationOnChain ==
    \E slot \in Slots : addAttestationOnChain(slot) /\ UNCHANGED started

HandleAddAttestationResume ==
    \E slot \in Slots : handleAddAttestationResume(slot) /\ UNCHANGED started

HandleMicroloan ==
    \E u \in Addr, a \in RequestedAmountChoices :
        Dispatch /\ handleMicroloan(u, a)

HandleAirdrop == \E c \in Claims : Dispatch /\ handleAirdrop(c[1], c[2])

ClaimAirdropOnChainCurrentPhase ==
    \E slot \in Slots : claimAirdropOnChainCurrentPhase(slot) /\ UNCHANGED started

ClaimAirdropOnChainAdvance ==
    \E slot \in Slots : claimAirdropOnChainAdvance(slot) /\ UNCHANGED started

ClaimAirdropOnChainClaimed ==
    \E slot \in Slots : claimAirdropOnChainClaimed(slot) /\ UNCHANGED started

ClaimAirdropOnChainRegistered ==
    \E slot \in Slots : claimAirdropOnChainRegistered(slot) /\ UNCHANGED started

ClaimAirdropOnChainTransaction ==
    \E slot \in Slots : claimAirdropOnChainTransaction(slot) /\ UNCHANGED started

HandleAirdropResume ==
    \E slot \in Slots : handleAirdropResume(slot) /\ UNCHANGED started

\* The votes of a body: true, false, none, and the strings "Yes" and "No".
VoteChoices == {JsTrue, JsFalse, JsUndefined, "Yes", "No"}

HandleGovernance ==
    \E u \in Addr, choice \in VoteChoices :
        Dispatch /\ handleGovernance(u, 1, choice)

HandleGovernanceResume ==
    \E slot \in Slots : handleGovernanceResume(slot) /\ UNCHANGED started

HandleGetProfile == \E u \in Addr : Dispatch /\ handleGetProfile(u)

HandleGetProfileResume ==
    \E slot \in Slots : handleGetProfileResume(slot) /\ UNCHANGED started

\* A user other than the wallet's address registers with UnbankedIdentity,
\* through the hub.
RegisterOnChain ==
    \E u \in Addr \ {wallet} : totalUsers = 0 /\ customVerificationHook(u, u, 0)

\* The contracts as deployed, and the backend signing with the key of any
\* address.
BackendRunInit ==
    /\ EnvInit /\ IdentityInit /\ GovernanceInit /\ LendingInit /\ AirdropInit
    /\ \E w \in Addr : BackendStart(w)

BackendNext ==
    \/ HandleVerification \/ HandleVerificationResume
    \/ HandleAddAttestation \/ AddAttestationOnChain
    \/ HandleAddAttestationResume \/ HandleMicroloan
    \/ HandleAirdrop \/ ClaimAirdropOnChainCurrentPhase
    \/ ClaimAirdropOnChainAdvance \/ ClaimAirdropOnChainClaimed
    \/ ClaimAirdropOnChainRegistered \/ ClaimAirdropOnChainTransaction
    \/ HandleAirdropResume
    \/ HandleGovernance \/ HandleGovernanceResume
    \/ HandleGetProfile \/ HandleGetProfileResume \/ RegisterOnChain

SpecBackend == BackendRunInit /\ [][BackendNext]_vars

(***************************************************************************)
(* The backend's claimAirdrop requests, interleaved at the awaits of       *)
(* claimAirdropOnChain, with verifications and the airdrop contract        *)
(***************************************************************************)
\* Valid verifications with one nullifier: the first one stores the user's
\* record, the later ones are refused.
Verified ==
    \E u \in Addr : Dispatch /\ handleVerification(TRUE, VerifyValid, 1, u)

\* The owner advances the phase up to Claim, the wallet's address registers,
\* and the owner funds the contract once.
OwnerAdvancesPhase == currentPhase < Claim /\ advancePhase(Owner)

WalletRegister == airdropCustomVerificationHook(1, wallet)

FundAirdropOnce ==
    /\ airdropTokenBalance[AirdropContract] = 0 /\ totalDistributed = 0
    /\ airdropTokenTransfer(Owner, AirdropContract, EarlyBirdClaim)

BackendAirdropNext ==
    \/ Verified \/ HandleVerificationResume \/ HandleAirdrop
    \/ ClaimAirdropOnChainCurrentPhase \/ ClaimAirdropOnChainAdvance
    \/ ClaimAirdropOnChainClaimed \/ ClaimAirdropOnChainRegistered
    \/ ClaimAirdropOnChainTransaction \/ HandleAirdropResume
    \/ WalletRegister \/ OwnerAdvancesPhase \/ FundAirdropOnce

SpecBackendAirdrop == BackendRunInit /\ [][BackendAirdropNext]_vars

(***************************************************************************)
(* calculateInterestRate on its own: the profiles it reads are drawn from  *)
(* ProfileChoices and the view function is called on them                  *)
(***************************************************************************)
MaxDefaults == 3
ReputationChoices == {0, 10, 50, 75, 76, 100, 101, 110}

Profile(defaulted, borrowed, repaid) ==
    [NoProfile EXCEPT !.defaultedLoans = defaulted, !.totalBorrowed = borrowed,
                      !.totalRepaid = repaid]

\* What a loan of MAX_LOAN_AMOUNT over MAX_LOAN_DURATION costs at the base rate.
MaxLoanInterest ==
    ((MAX_LOAN_AMOUNT \div 10000) * BASE_INTEREST_RATE
        * (MAX_LOAN_DURATION \div DAY)) \div 365

\* Borrowers with no history, with small loans out, repaid at no interest or
\* with interest, and with 0..MaxDefaults defaults among small loans, with and
\* without a large loan repaid with interest.
ProfileChoices ==
    {Profile(0, 0, 0), Profile(0, MIN_LOAN_AMOUNT, MIN_LOAN_AMOUNT),
     Profile(0, MIN_LOAN_AMOUNT, MIN_LOAN_AMOUNT + 2)}
    \cup {Profile(d, MaxDefaults * MIN_LOAN_AMOUNT, 0) : d \in 0..MaxDefaults}
    \cup {Profile(d, MaxDefaults * MIN_LOAN_AMOUNT + MAX_LOAN_AMOUNT,
                  MAX_LOAN_AMOUNT + MaxLoanInterest) : d \in 0..MaxDefaults}

RateInit ==
    /\ EnvInit /\ IdentityInit /\ GovernanceInit /\ AirdropInit /\ BackendInit
    /\ \E profiles \in [Addr -> ProfileChoices], token \in LendingTokens :
           LendingStart(profiles, token)

CalculateInterestRate ==
    \E b \in Addr, r \in ReputationChoices :
        /\ res' = Returned("calculateInterestRate", <<b, r>>,
                           calculateInterestRate(b, r))
        /\ UNCHANGED <<now, lendVars, LendFrame>>

SpecRate == RateInit /\ [][CalculateInterestRate]_vars

(***************************************************************************)
(* The claims                                                              *)
(***************************************************************************)

\* C1: no borrower ever has more than MAX_ACTIVE_LOANS_PER_USER loans active
\* at the same time.
C1_ActiveLoansCapped ==
    \A b \in Addr : borrowerProfiles[b].activeLoans <= MAX_ACTIVE_LOANS_PER_USER

\* C2: every active loan holds collateral of at least COLLATERAL_RATIO percent
\* of its principal.
C2_ActiveLoansCollateralized ==
    \A i \in LoanIds :
        loans[i].active =>
            loans[i].collateralAmount * 100 >= loans[i].amount * COLLATERAL_RATIO

\* Where a loan is in its lifecycle, read from its flags.
LoanState(loan) ==
    IF loan.id = 0 THEN "None"
    ELSE IF ~loan.approved /\ ~loan.active /\ ~loan.defaulted THEN "Requested"
    ELSE IF loan.approved /\ loan.active /\ ~loan.defaulted THEN "Active"
    ELSE IF loan.approved /\ ~loan.active /\ ~loan.defaulted THEN "Repaid"
    ELSE IF loan.approved /\ ~loan.active /\ loan.defaulted THEN "Defaulted"
    ELSE "Invalid"

Succeeded(op) == res'.op = op /\ res'.err = Ok

\* C3: a loan's flags are always those of Requested, Active, Repaid or
\* Defaulted; it moves Requested -> Active only by approveLoan, which the
\* owner's second call on the loan reverts from with LoanAlreadyApproved;
\* Active -> Repaid only by a repayLoan that completes the debt;
\* Active -> Defaulted only by markAsDefaulted; and it moves in no other way,
\* so that Repaid and Defaulted are terminal.
C3_LoanLifecycle ==
    /\ [](\A i \in LoanIds : LoanState(loans[i]) # "Invalid")
    /\ [][\A i \in LoanIds :
            LET from == LoanState(loans[i])
                to == LoanState(loans'[i]) IN
            from # to =>
                \/ from = "None" /\ to = "Requested" /\ Succeeded("requestLoan")
                \/ from = "Requested" /\ to = "Active" /\ Succeeded("approveLoan")
                \/ /\ from = "Active" /\ to = "Repaid" /\ Succeeded("repayLoan")
                   /\ loans'[i].repaidAmount >= calculateTotalDue(i)
                \/ from = "Active" /\ to = "Defaulted"
                       /\ Succeeded("markAsDefaulted")]_vars
    /\ [][\A s \in Addr, i \in LoanIds :
            res'.op = "approveLoan" /\ loans[i].approved /\ approveLoan(s, i) =>
                /\ res'.err = IF s = Owner THEN "LoanAlreadyApproved"
                              ELSE "OwnableUnauthorizedAccount"
                /\ UNCHANGED lendVars]_vars

\* C3's case: one loan was repaid in full and another defaulted.
C3_Witness ==
    \E i, j \in LoanIds :
        LoanState(loans[i]) = "Repaid" /\ LoanState(loans[j]) = "Defaulted"

\* The conditions C4 lists.
C4_Eligible(sender, amount, duration) ==
    /\ MIN_LOAN_AMOUNT <= amount /\ amount <= MAX_LOAN_AMOUNT
    /\ MIN_LOAN_DURATION <= duration /\ duration <= MAX_LOAN_DURATION
    /\ userData[sender].isRegistered
    /\ userData[sender].reputationScore >= MIN_REPUTATION_FOR_LOAN
    /\ ~borrowerProfiles[sender].isBanned
    /\ borrowerProfiles[sender].activeLoans < MAX_ACTIVE_LOANS_PER_USER
    /\ totalPoolFunds >= amount

\* The errors of the conditions that fail.
C4_Errors(sender, amount, duration) ==
    {e \in {"InvalidAmount", "NotRegistered", "InsufficientReputation",
            "UnauthorizedAccess", "InsufficientFunds"} :
        \/ e = "InvalidAmount" /\ (amount < MIN_LOAN_AMOUNT \/ amount > MAX_LOAN_AMOUNT)
        \/ e = "InvalidAmount"
               /\ (duration < MIN_LOAN_DURATION \/ duration > MAX_LOAN_DURATION)
        \/ e = "NotRegistered" /\ ~userData[sender].isRegistered
        \/ e = "InsufficientReputation"
               /\ userData[sender].reputationScore < MIN_REPUTATION_FOR_LOAN
        \/ e = "UnauthorizedAccess" /\ borrowerProfiles[sender].isBanned
        \/ e = "UnauthorizedAccess"
               /\ borrowerProfiles[sender].activeLoans >= MAX_ACTIVE_LOANS_PER_USER
        \/ e = "InsufficientFunds" /\ totalPoolFunds < amount}

\* C4: requestLoan creates a loan only if the amount and the duration are in
\* range, the caller is registered with reputation >= 50, not banned, has
\* fewer than 3 active loans and the pool holds the amount; otherwise it
\* reverts with the error of a failing condition and leaves loanCounter,
\* loans and userLoans unchanged.
C4_RequestLoanGuards ==
    /\ [][res'.op = "requestLoan" =>
            \A s \in Addr, a \in AmountChoices, d \in DurationChoices :
                \/ IF C4_Eligible(s, a, d)
                   THEN /\ res'.err = Ok
                        /\ loanCounter' = loanCounter + 1
                        /\ loans'[loanCounter'].borrower = s
                        /\ loans'[loanCounter'].amount = a
                        /\ userLoans'[s] = Append(userLoans[s], loanCounter')
                   ELSE /\ res'.err \in C4_Errors(s, a, d)
                        /\ UNCHANGED <<loanCounter, loans, userLoans>>
                \/ ~requestLoan(s, a, d)]_vars
    /\ [][loanCounter' # loanCounter =>
            \E s \in Addr, a \in AmountChoices, d \in DurationChoices :
                C4_Eligible(s, a, d) /\ requestLoan(s, a, d)]_vars

\* C4's case: a request was refused because the borrower, registered,
\* reputable and not banned, already had three active loans.
C4_Witness ==
    /\ res.op = "requestLoan" /\ res.err = "UnauthorizedAccess"
    /\ \E b \in Addr : borrowerProfiles[b].activeLoans = MAX_ACTIVE_LOANS_PER_USER
    /\ \A b \in Addr : ~borrowerProfiles[b].isBanned

\* The rate as C5 states it.
C5_Scaled(rate, percent) == (rate * percent) \div 100

C5_Reference(profile, reputationScore) ==
    LET d == profile.defaultedLoans
        byReputation ==
            IF reputationScore > 100 THEN C5_Scaled(BASE_INTEREST_RATE, 80)
            ELSE IF reputationScore > 75 THEN C5_Scaled(BASE_INTEREST_RATE, 90)
            ELSE BASE_INTEREST_RATE
        byDefaults ==
            IF d > 0 THEN C5_Scaled(byReputation, 100 + 10 * d) ELSE byReputation
    IN  IF profile.totalRepaid > profile.totalBorrowed /\ d = 0
        THEN C5_Scaled(byDefaults, 95)
        ELSE byDefaults

\* C5: calculateInterestRate returns the reference rate; for a fixed profile
\* the rate never increases with the reputation, and for a fixed reputation
\* and repayment history it never decreases with the number of defaults.
C5_InterestRate ==
    /\ res.op = "calculateInterestRate" =>
            res.ret = C5_Reference(borrowerProfiles[res.args[1]], res.args[2])
    /\ \A b \in Addr, r1, r2 \in ReputationChoices :
            r1 <= r2 => calculateInterestRate(b, r2) <= calculateInterestRate(b, r1)
    /\ \A b1, b2 \in Addr, r \in ReputationChoices :
            /\ borrowerProfiles[b1].totalBorrowed = borrowerProfiles[b2].totalBorrowed
            /\ borrowerProfiles[b1].totalRepaid = borrowerProfiles[b2].totalRepaid
            /\ borrowerProfiles[b1].defaultedLoans <= borrowerProfiles[b2].defaultedLoans
            => calculateInterestRate(b1, r) <= calculateInterestRate(b2, r)

\* C5's case: the rate of a borrower with reputation above 100 and two
\* defaults was computed: 1200 * 80 / 100 * 120 / 100.
C5_Witness ==
    /\ res.op = "calculateInterestRate"
    /\ res.args[2] > 100
    /\ borrowerProfiles[res.args[1]].defaultedLoans = 2
    /\ res.ret = 1152

\* C6: a verification callback that carries a nullifier already used in a
\* successful registration reverts with AlreadyRegistered and leaves userData,
\* totalUsers and the nullifier map unchanged, whatever the userIdentifier.
C6_NullifierRegistersOnce ==
    [][res'.op = "customVerificationHook" =>
        \A n \in Nullifiers, u \in UserIds, len \in {0, 1} :
            (\E e \in userRegisteredLog : e.nullifier = n)
                /\ customVerificationHook(n, u, len) =>
            /\ res'.err = "AlreadyRegistered"
            /\ UNCHANGED <<userData, totalUsers, nullifierToUserIdentifier>>]_vars

\* The errors of the conditions of addAttestation that fail.
C7_Errors(sender, userAddress, points) ==
    {e \in {"NotRegistered", "InvalidAttestation"} :
        \/ e = "NotRegistered" /\ ~userData[userAddress].isRegistered
        \/ e = "InvalidAttestation" /\ sender \in userData[userAddress].attesters
        \/ e = "InvalidAttestation"
               /\ (points < MIN_ATTESTATION_POINTS \/ points > MAX_ATTESTATION_POINTS)}

\* C7: addAttestation succeeds only for a registered user, an attester who has
\* not attested that user and 10 <= points <= 50, and then adds points to the
\* user's reputationScore and 1 to attestationCount and totalAttestations;
\* otherwise it reverts with NotRegistered or InvalidAttestation and changes
\* nothing; an attester, once recorded for a user, stays recorded, so attests
\* that user at most once.
C7_AttestOnce ==
    /\ [][res'.op = "addAttestation" =>
            \A s \in Addr, u \in Addr, p \in PointChoices :
                \/ IF /\ userData[u].isRegistered
                      /\ s \notin userData[u].attesters
                      /\ MIN_ATTESTATION_POINTS <= p /\ p <= MAX_ATTESTATION_POINTS
                   THEN /\ res'.err = Ok
                        /\ userData'[u].reputationScore =
                               userData[u].reputationScore + p
                        /\ userData'[u].attestationCount =
                               userData[u].attestationCount + 1
                        /\ totalAttestations' = totalAttestations + 1
                        /\ s \in userData'[u].attesters
                   ELSE /\ res'.err \in C7_Errors(s, u, p)
                        /\ UNCHANGED idVars
                \/ ~addAttestation(s, u, p)]_vars
    /\ [][\A u \in UserIds : userData[u].attesters \subseteq userData'[u].attesters]_vars

\* C7's case: a user every address has attested, and a further attestation
\* was refused.
C7_Witness ==
    /\ res.op = "addAttestation" /\ res.err = "InvalidAttestation"
    /\ \E u \in Addr : userData[u].attesters = Addr

\* The VoteCast events of a proposal, and the voting powers they record.
VoteCastOf(proposalId) == {e \in voteCastLog : e.proposalId = proposalId}

RECURSIVE SumVotingPower(_)
SumVotingPower(events) ==
    IF events = {} THEN 0
    ELSE LET e == CHOOSE x \in events : TRUE
         IN  e.votingPower + SumVotingPower(events \ {e})

\* The tallies of every proposal are the voting powers recorded for the
\* addresses that have voted, each once.
C8_TalliesMatch ==
    \A p \in PIds :
        /\ proposals[p].forVotes + proposals[p].againstVotes
               = SumVotingPower(VoteCastOf(p))
        /\ \A a \in Addr :
               Cardinality({e \in VoteCastOf(p) : e.voter = a})
                   = IF hasVoted(p, a) THEN 1 ELSE 0

\* C8: each address is counted once per proposal, and a second vote by the
\* same address on the same proposal reverts with AlreadyVoted, the tallies
\* unchanged.
C8_SecondVoteAlreadyVoted ==
    /\ []C8_TalliesMatch
    /\ [][res'.op = "vote" =>
            \A s \in Addr, p \in PIds, b \in BOOLEAN :
                hasVoted(p, s) /\ vote(s, p, b) =>
                    res'.err = "AlreadyVoted" /\ UNCHANGED proposals]_vars

\* C8 as amended: each address is counted once per proposal, and a second
\* vote by the same address on the same proposal reverts, with AlreadyVoted
\* while the voting period is open and with VotingNotActive after its
\* endTime, the tallies unchanged.
C8_SecondVoteReverts ==
    /\ []C8_TalliesMatch
    /\ [][res'.op = "vote" =>
            \A s \in Addr, p \in PIds, b \in BOOLEAN :
                hasVoted(p, s) /\ vote(s, p, b) =>
                    /\ res'.err = IF now > proposals[p].endTime
                                  THEN "VotingNotActive" ELSE "AlreadyVoted"
                    /\ UNCHANGED proposals]_vars

\* C8's case: both addresses have voted on a proposal, and a second vote of
\* one of them was refused with AlreadyVoted.
C8_Witness ==
    /\ res.op = "vote" /\ res.err = "AlreadyVoted"
    /\ \E p \in PIds : proposals[p].hasVoted = Addr

\* A vote the contract counts comes from a registered caller whose reputation
\* is at least the proposal's minimum, and adds that reputation to the side
\* voted for.
C9_CountedVote(s, p, b) ==
    proposals' # proposals =>
        /\ userData[s].isRegistered
        /\ userData[s].reputationScore >= proposals[p].minReputationRequired
        /\ proposals'[p].forVotes = proposals[p].forVotes
               + (IF b THEN userData[s].reputationScore ELSE 0)
        /\ proposals'[p].againstVotes = proposals[p].againstVotes
               + (IF b THEN 0 ELSE userData[s].reputationScore)

\* C9: vote counts only registered callers with enough reputation, at the
\* weight of their reputation; an unregistered caller reverts with
\* NotVerifiedIdentity and one below the threshold with
\* InsufficientReputation, the tallies and hasVoted unchanged (stated for the
\* proposals that exist).
C9_VoteGated ==
    [][res'.op = "vote" =>
        \A s \in Addr, p \in PIds, b \in BOOLEAN :
            proposals[p].id # 0 /\ vote(s, p, b) =>
                /\ C9_CountedVote(s, p, b)
                /\ ~userData[s].isRegistered =>
                       res'.err = "NotVerifiedIdentity" /\ UNCHANGED proposals
                /\ userData[s].isRegistered
                       /\ userData[s].reputationScore
                              < proposals[p].minReputationRequired =>
                       res'.err = "InsufficientReputation" /\ UNCHANGED proposals]_vars

\* What C9 as amended says a caller that is not registered, or is below the
\* threshold, reverts with: the error given for its identity when the
\* proposal exists, its voting period is open and the caller has not voted
\* on it, and otherwise the error of the first of these three that fails.
C9_RefusedWith(identityError, s, p) ==
    IF proposals[p].id = 0 THEN "ProposalNotFound"
    ELSE IF now < proposals[p].startTime \/ now > proposals[p].endTime
    THEN "VotingNotActive"
    ELSE IF hasVoted(p, s) THEN "AlreadyVoted"
    ELSE identityError

\* C9 as amended: vote counts only registered callers with enough reputation,
\* at the weight of their reputation; every revert leaves the tallies and
\* hasVoted unchanged; an unregistered caller always reverts, with
\* NotVerifiedIdentity, and one below the threshold always reverts, with
\* InsufficientReputation, when the proposal exists, its voting period is
\* open and the caller has not voted on it, and otherwise with the error of
\* the first of those checks that fails: ProposalNotFound, VotingNotActive or
\* AlreadyVoted.
C9_VoteGatedInOrder ==
    [][res'.op = "vote" =>
        \A s \in Addr, p \in PIds, b \in BOOLEAN :
            vote(s, p, b) =>
                /\ C9_CountedVote(s, p, b)
                /\ res'.err # Ok => UNCHANGED proposals
                /\ ~userData[s].isRegistered =>
                       res'.err = C9_RefusedWith("NotVerifiedIdentity", s, p)
                /\ userData[s].isRegistered
                       /\ userData[s].reputationScore
                              < proposals[p].minReputationRequired =>
                       res'.err = C9_RefusedWith("InsufficientReputation", s, p)]_vars

\* C9's case: the only voter of the only proposal voted on was counted at a
\* weight above the base reputation, registered anew, which put the
\* reputation below the proposal's threshold, and voted again: the vote
\* was refused with AlreadyVoted.
C9_Witness ==
    /\ res.op = "vote" /\ res.err = "AlreadyVoted"
    /\ \E p \in PIds, s \in Addr :
           /\ \A q \in PIds : proposals[q].hasVoted = IF q = p THEN {s} ELSE {}
           /\ userData[s].isRegistered
           /\ userData[s].reputationScore < proposals[p].minReputationRequired
           /\ \E e \in voteCastLog :
                  e.voter = s /\ e.votingPower > VERIFICATION_BONUS

\* C10: a vote is accepted only while startTime <= now <= endTime, a proposal
\* executes only when now > endTime, and once a proposal is executed it stays
\* executed and its tallies and voters never change.
C10_VotingWindow ==
    /\ [][res'.op = "vote" /\ res'.err = Ok =>
            \A p \in PIds :
                proposals'[p] # proposals[p] =>
                    proposals[p].startTime <= now /\ now <= proposals[p].endTime]_vars
    /\ [][\A p \in PIds :
            proposals'[p].executed /\ ~proposals[p].executed =>
                /\ res'.op = "executeProposal" /\ res'.err = Ok
                /\ now > proposals[p].endTime]_vars
    /\ [][\A p \in PIds :
            proposals[p].executed => proposals'[p] = proposals[p]]_vars
    /\ [][now' >= now]_vars

\* C10's case: a vote on an executed proposal was refused.
C10_Witness ==
    /\ res.op = "vote" /\ res.err = "VotingNotActive"
    /\ \E p \in PIds : proposals[p].executed

\* C11: executeProposal succeeds only on an existing, not yet executed
\* proposal with forVotes > againstVotes (a tie does not pass); executed, once
\* true, stays true, and every further executeProposal on the proposal
\* changes nothing and reverts, with ProposalNotExecutable when the owner
\* calls (any other caller is refused by onlyOwner).
C11_ExecuteOnce ==
    /\ [][res'.op = "executeProposal" =>
            \A s \in Addr, p \in PIds :
                \/ /\ res'.err = Ok =>
                        /\ proposals[p].id # 0
                        /\ proposals[p].forVotes > proposals[p].againstVotes
                        /\ ~proposals[p].executed
                        /\ proposals'[p].executed
                   /\ proposals[p].executed =>
                        /\ res'.err = IF s = Owner THEN "ProposalNotExecutable"
                                      ELSE "OwnableUnauthorizedAccount"
                        /\ UNCHANGED proposals
                   /\ proposals[p].id # 0 /\ now > proposals[p].endTime
                        /\ proposals[p].forVotes <= proposals[p].againstVotes =>
                        res'.err # Ok /\ UNCHANGED proposals
                \/ ~executeProposal(s, p)]_vars
    /\ [][\A p \in PIds : proposals[p].executed => proposals'[p].executed]_vars

\* C11's case: the owner's second executeProposal on an executed proposal
\* was refused.
C11_Witness ==
    /\ res.op = "executeProposal" /\ res.err = "ProposalNotExecutable"
    /\ \E p \in PIds : proposals[p].executed

\* totalClaimed is the number of user identifiers that have claimed, and a
\* user identifier that has claimed stays so.
C12_ClaimsCounted ==
    /\ [](totalClaimed
            = Cardinality({u \in UserIds : airdropUserData[u].hasClaimed}))
    /\ [][\A u \in UserIds :
            airdropUserData[u].hasClaimed => airdropUserData'[u].hasClaimed]_vars

\* C12: a user claims at most once: hasClaimed stays true, totalClaimed
\* counts the user identifiers with hasClaimed, and every claimAirdrop by a
\* user who has claimed reverts with AlreadyClaimed and changes nothing.
C12_ClaimOnce ==
    /\ C12_ClaimsCounted
    /\ [][res'.op = "claimAirdrop" =>
            \A s \in Addr, proof \in ProofChoices, b \in BonusChoices :
                airdropUserData[s].hasClaimed /\ claimAirdrop(s, proof, b) =>
                    res'.err = "AlreadyClaimed" /\ UNCHANGED airVars]_vars

\* C12 as amended: a user claims at most once: hasClaimed stays true,
\* totalClaimed counts the user identifiers with hasClaimed, and every
\* claimAirdrop by a user who has claimed reverts and changes nothing, with
\* AlreadyClaimed while the phase is Claim and with ClaimNotOpen once the
\* phase has moved on.
C12_ClaimOnceInPhase ==
    /\ C12_ClaimsCounted
    /\ [][res'.op = "claimAirdrop" =>
            \A s \in Addr, proof \in ProofChoices, b \in BonusChoices :
                airdropUserData[s].hasClaimed /\ claimAirdrop(s, proof, b) =>
                    /\ res'.err = IF currentPhase = Claim THEN "AlreadyClaimed"
                                  ELSE "ClaimNotOpen"
                    /\ UNCHANGED airVars]_vars

\* C12's case: both users have claimed, and a further claim was refused with
\* AlreadyClaimed.
C12_Witness ==
    /\ res.op = "claimAirdrop" /\ res.err = "AlreadyClaimed"
    /\ totalClaimed = Cardinality(Addr)

\* C13: currentPhase moves only forward, one step at a time, and only by the
\* owner's advancePhase, which advances it by exactly one step and leaves it
\* unchanged in Ended.
C13_PhaseForward ==
    /\ [](currentPhase \in Setup..Ended)
    /\ [][currentPhase' \in {currentPhase, currentPhase + 1}]_vars
    /\ [][currentPhase' # currentPhase =>
            res'.op = "advancePhase" /\ res'.err = Ok]_vars
    /\ [][res'.op = "advancePhase" =>
            \A s \in Addr :
                \/ IF s = Owner
                   THEN /\ res'.err = Ok
                        /\ currentPhase' = IF currentPhase = Ended THEN Ended
                                           ELSE currentPhase + 1
                   ELSE res'.err # Ok /\ UNCHANGED airVars
                \/ ~advancePhase(s)]_vars

\* C13's case: advancePhase was called in Ended and the phase stayed Ended.
C13_Witness ==
    /\ currentPhase = Ended
    /\ res.op = "advancePhase" /\ res.err = Ok
    /\ Len(phaseChangedLog) > Ended
    /\ phaseChangedLog[Len(phaseChangedLog) - 1] = Ended

\* C14: a registration succeeds only in the Registration phase and a claim
\* only in the Claim phase; in any other phase they revert with
\* RegistrationNotOpen and ClaimNotOpen and change nothing; once a claim has
\* been made nobody is registered any more.
C14_PhaseGates ==
    /\ [][res'.op = "airdropCustomVerificationHook" =>
            \A n \in Nullifiers, u \in Addr :
                airdropCustomVerificationHook(n, u) =>
                    /\ res'.err = Ok => currentPhase = Registration
                    /\ currentPhase # Registration =>
                           res'.err = "RegistrationNotOpen" /\ UNCHANGED airVars]_vars
    /\ [][res'.op = "claimAirdrop" =>
            \A s \in Addr, proof \in ProofChoices, b \in BonusChoices :
                claimAirdrop(s, proof, b) =>
                    /\ res'.err = Ok => currentPhase = Claim
                    /\ currentPhase # Claim =>
                           res'.err = "ClaimNotOpen" /\ UNCHANGED airVars]_vars
    /\ [][totalRegistered' # totalRegistered => currentPhase = Registration]_vars
    /\ [][totalClaimed' # totalClaimed => currentPhase = Claim]_vars
    /\ [][totalClaimed > 0 =>
            /\ UNCHANGED <<totalRegistered, airdropNullifiers>>
            /\ \A u \in UserIds : airdropUserData'[u].isRegistered
                                     = airdropUserData[u].isRegistered]_vars

\* C14's case: after a claim, a registration was refused with
\* RegistrationNotOpen.
C14_Witness ==
    /\ totalClaimed > 0
    /\ res.op = "airdropCustomVerificationHook"
    /\ res.err = "RegistrationNotOpen"

\* The record handleVerification stores for a user.
FreshRecord(record, userIdentifier) ==
    /\ record.userIdentifier = userIdentifier
    /\ record.reputationScore = 0
    /\ record.attestations = <<>>
    /\ record.transactions = <<>>

\* No key of nullifierToUser is ever removed or given another user, and a
\* valid verification whose nullifier is already a key is answered with 409
\* and leaves users and nullifierToUser unchanged.
C15_DuplicateRefused ==
    /\ \A k \in DOMAIN nullifierToUser :
           k \in DOMAIN nullifierToUser' /\ nullifierToUser'[k] = nullifierToUser[k]
    /\ \A n \in {0} \cup Nullifiers, u \in Addr :
           LET nullifier == IF n # 0 THEN n ELSE u IN
           (nullifier \in DOMAIN nullifierToUser
                /\ handleVerification(TRUE, VerifyValid, n, u)) =>
               /\ res'.ret = 409
               /\ users' = users
               /\ nullifierToUser' = nullifierToUser

\* C15: handleVerification registers each nullifier at most once: a valid
\* verification whose nullifier is already a key of nullifierToUser is
\* answered with 409 and leaves users and nullifierToUser unchanged, and
\* after a successful verification, when the handler answers 200, a nullifier
\* maps to the userIdentifier and users[userIdentifier] is a fresh record
\* with reputationScore 0.
C15_NullifierOnce ==
    [][/\ C15_DuplicateRefused
       /\ \A slot \in Slots :
              handleVerificationResume(slot) =>
                  LET u == requests[slot].userIdentifier IN
                  /\ res'.ret = 200
                  /\ \E k \in DOMAIN nullifierToUser' : nullifierToUser'[k] = u
                  /\ FreshRecord(users'[u], u)]_vars

\* C15 as amended: a valid verification whose nullifier is already a key of
\* nullifierToUser is answered with 409 and leaves users and nullifierToUser
\* unchanged; any other valid verification sets nullifierToUser[nullifier]
\* to the userIdentifier and users[userIdentifier] to a fresh record with
\* reputationScore 0 before it awaits the on-chain check, unanswered, and is
\* answered with 200 after it, when the nullifier still maps to the
\* userIdentifier and the user still has a record.
C15_NullifierOnceStored ==
    [][/\ C15_DuplicateRefused
       /\ \A n \in {0} \cup Nullifiers, u \in Addr :
              LET nullifier == IF n # 0 THEN n ELSE u IN
              (nullifier \notin DOMAIN nullifierToUser
                   /\ handleVerification(TRUE, VerifyValid, n, u)) =>
                  /\ res' = res
                  /\ nullifierToUser'[nullifier] = u
                  /\ FreshRecord(users'[u], u)
                  /\ \E slot \in Slots :
                         /\ requests[slot] = Idle
                         /\ requests'[slot].handler = "handleVerification"
                         /\ requests'[slot].userIdentifier = u
       /\ \A slot \in Slots :
              handleVerificationResume(slot) =>
                  LET u == requests[slot].userIdentifier IN
                  /\ res'.ret = 200
                  /\ users' = users /\ nullifierToUser' = nullifierToUser
                  /\ \E k \in DOMAIN nullifierToUser : nullifierToUser[k] = u
                  /\ u \in DOMAIN users]_vars

\* A second verification with a nullifier has just been refused with 409
\* while the first one, which registered it, is still waiting for the
\* on-chain check, unanswered.
C15_Witness ==
    /\ res.op = "handleVerification" /\ res.ret = 409
    /\ res.args[1] \in DOMAIN nullifierToUser
    /\ \E slot \in Slots :
           /\ requests[slot].handler = "handleVerification"
           /\ requests[slot].userIdentifier = nullifierToUser[res.args[1]]

\* The transactions stored for the user after the step are those stored
\* before it and one more, of the type.
C16_OneAppended(userIdentifier, type) ==
    /\ Len(users'[userIdentifier].transactions)
           = Len(StoredTransactions(userIdentifier)) + 1
    /\ SubSeq(users'[userIdentifier].transactions, 1,
              Len(StoredTransactions(userIdentifier)))
           = StoredTransactions(userIdentifier)
    /\ users'[userIdentifier].transactions[
           Len(users'[userIdentifier].transactions)].type = type

\* A stored reputationScore is at least n; NaN is not.
C16_AtLeast(score, n) == score # NaN /\ score >= n

\* C16: an applyMicroloan request is approved only if the stored
\* reputationScore of the user is at least 50 and a castVote request is
\* accepted only if it is at least 100; below the threshold the handler
\* answers 403 and appends nothing to the user's transactions; the thresholds
\* equal SERVICE_REQUIREMENTS.MICROLOAN.minScore and
\* SERVICE_REQUIREMENTS.GOVERNANCE.minScore.  The stored score is the one
\* found when the request is handled: a user whose stored score is not at
\* least the threshold is answered 403 and users stays as it is; any other
\* applyMicroloan is answered 200 with one microloan appended, the score
\* stored for the user being at least 50 (a user for whom nothing is stored
\* gets a record with the score 50); any other castVote, whatever its vote,
\* goes on to castVoteOnChain, the score stored being at least 100 (100 for a
\* user for whom nothing was stored), and every castVote that is answered 200
\* holds a record with a score of at least 100.
C16_ReputationGates ==
    /\ MICROLOAN_MIN_REPUTATION = SERVICE_REQUIREMENTS.MICROLOAN.minScore
    /\ GOVERNANCE_MIN_REPUTATION = SERVICE_REQUIREMENTS.GOVERNANCE.minScore
    /\ [][/\ \A u \in Addr, a \in RequestedAmountChoices :
               handleMicroloan(u, a) =>
                   /\ res'.op = "handleMicroloan"
                   /\ IF u \in DOMAIN users
                           /\ ~C16_AtLeast(users[u].reputationScore, 50)
                      THEN res'.ret = 403 /\ users' = users
                      ELSE /\ res'.ret = 200
                           /\ C16_AtLeast(users'[u].reputationScore, 50)
                           /\ u \in DOMAIN users =>
                                  users'[u].reputationScore
                                      = users[u].reputationScore
                           /\ C16_OneAppended(u, "microloan")
        /\ \A u \in Addr, choice \in VoteChoices :
               handleGovernance(u, 1, choice) =>
                   IF u \in DOMAIN users
                        /\ ~C16_AtLeast(users[u].reputationScore, 100)
                   THEN /\ res'.op = "handleGovernance" /\ res'.ret = 403
                        /\ users' = users /\ requests' = requests
                   ELSE /\ res' = res
                        /\ C16_AtLeast(users'[u].reputationScore, 100)
                        /\ u \in DOMAIN users => users' = users
                        /\ \E slot \in Slots :
                               /\ requests[slot] = Idle
                               /\ requests'[slot].handler = "handleGovernance"
                               /\ requests'[slot].userIdentifier = u
                               /\ ~requests'[slot].detached
        /\ \A slot \in Slots :
               handleGovernanceResume(slot) =>
                   /\ res'.op = "handleGovernance" /\ res'.ret = 200
                   /\ C16_AtLeast(HeldScore(requests[slot]), 100)
                   /\ IF requests[slot].detached THEN users' = users
                      ELSE C16_OneAppended(requests[slot].userIdentifier,
                                           "governance")]_vars

\* The airdrop transactions recorded for a user under an airdropId.
AirdropTransactions(userIdentifier, airdropId) ==
    {k \in 1..Len(StoredTransactions(userIdentifier)) :
        /\ StoredTransactions(userIdentifier)[k].type = "airdrop"
        /\ \E t \in 0..MaxTime :
               StoredTransactions(userIdentifier)[k].id =
                   <<"a", "i", "r", "d", "r", "o", "p", "_">> \o airdropId
                       \o <<"_", ToString(t)>>}

\* C17: for every user and airdropId at most one claimAirdrop request ever
\* succeeds, at most one airdrop transaction with that airdropId is recorded
\* for the user and at most one on-chain token transfer is triggered for it,
\* for every interleaving of concurrent claimAirdrop requests across the
\* await on claimAirdropOnChain.
C17_OneClaimPerAirdrop ==
    \A c \in Claims :
        /\ airdropSucceeded[c] <= 1
        /\ airdropPayouts[c] <= 1
        /\ Cardinality(AirdropTransactions(c[1], c[2])) <= 1

\* C18: the lending contract's token balance equals totalPoolFunds plus the
\* collateralAmount of all loans plus the collateralBalances of all
\* borrowers plus the tokens that holders have sent to it directly, so that
\* the balance equals the sum of the first three as long as tokens enter or
\* leave only through the contract's functions; totalPoolFunds never exceeds
\* the tokens held, and the transfers of approveLoan and withdrawFromPool
\* never fail for lack of balance.
C18_TokensConserved ==
    /\ tokenBalance[LendingContract] =
           totalPoolFunds + SumCollateralAmount(LoanIds)
               + SumCollateralBalances(Addr) + directTransfers
    /\ totalPoolFunds <= tokenBalance[LendingContract]
    /\ res.op \in {"approveLoan", "withdrawFromPool"} =>
           res.err # InsufficientBalance

\* The owner has just withdrawn from the pool while the contract holds the
\* collateral of a loan and collateral returned to a borrower.
C18_Witness ==
    /\ res.op = "withdrawFromPool" /\ res.err = Ok
    /\ directTransfers = 0
    /\ SumCollateralAmount(LoanIds) > 0
    /\ SumCollateralBalances(Addr) > 0

\* C19: every active loan has repaidAmount <= calculateTotalDue, so that the
\* subtraction totalDue - repaidAmount of repayLoan and markAsDefaulted never
\* underflows; a repayLoan that goes through pulls min(amount, totalDue -
\* repaidAmount) from the borrower, adds it to repaidAmount, and closes the
\* loan exactly when repaidAmount reaches totalDue.
C19_RepaymentCapped ==
    /\ [](/\ \A i \in LoanIds :
                loans[i].active => loans[i].repaidAmount <= calculateTotalDue(i)
          /\ res.err # "Panic")
    /\ [][res'.op = "repayLoan" /\ res'.err = Ok =>
            \A s \in Addr, i \in LoanIds, a \in PartialRepayChoices :
                repayLoan(s, i, a) =>
                    LET totalDue == calculateTotalDue(i)
                        remainingDebt == totalDue - loans[i].repaidAmount
                        pulled == tokenBalance[s] - tokenBalance'[s]
                    IN  /\ pulled = IF a < remainingDebt THEN a ELSE remainingDebt
                        /\ tokenBalance'[LendingContract] =
                               tokenBalance[LendingContract] + pulled
                        /\ loans'[i].repaidAmount = loans[i].repaidAmount + pulled
                        /\ loans'[i].repaidAmount <= totalDue
                        /\ ~loans'[i].active <=> loans'[i].repaidAmount = totalDue]_vars

\* A repayment has just closed a loan that had accrued interest: the loan
\* holds more than its principal.
C19_Witness ==
    /\ res.op = "repayLoan" /\ res.err = Ok
    /\ \E i \in LoanIds :
           /\ loans[i].approved /\ ~loans[i].active /\ ~loans[i].defaulted
           /\ loans[i].repaidAmount > loans[i].amount
           /\ loans[i].repaidAmount = calculateTotalDue(i)

\* C20: markAsDefaulted succeeds only on a loan that is active and whose
\* endTime is strictly in the past; called by the owner on an active loan no
\* later than endTime it reverts with LoanExpired, and on a loan that is not
\* active with LoanNotApproved, leaving the state unchanged; a defaulted loan
\* stays defaulted and inactive, and every repayLoan on it reverts with
\* LoanNotApproved.
C20_DefaultAfterEndTime ==
    [][\A i \in LendLoanIds :
           /\ res'.op = "markAsDefaulted" =>
                  /\ \A s \in Addr :
                         (markAsDefaulted(s, i) /\ res'.err = Ok) =>
                             /\ s = Owner
                             /\ loans[i].active /\ now > loans[i].endTime
                             /\ loans'[i].defaulted /\ ~loans'[i].active
                  /\ (markAsDefaulted(Owner, i) /\ loans[i].id # 0) =>
                         IF loans[i].active /\ now > loans[i].endTime
                         THEN res'.err = Ok
                         ELSE /\ res'.err = IF loans[i].active THEN "LoanExpired"
                                            ELSE "LoanNotApproved"
                              /\ UNCHANGED <<now, lendVars>>
           /\ loans[i].defaulted =>
                  /\ loans'[i].defaulted /\ ~loans'[i].active
                  /\ res'.op = "repayLoan" =>
                         \A s \in Addr, a \in PartialRepayChoices :
                             repayLoan(s, i, a) =>
                                 /\ res'.err = "LoanNotApproved"
                                 /\ UNCHANGED <<now, lendVars>>]_vars

\* A repayment has just been refused with LoanNotApproved when every loan
\* there is has been defaulted, one of them partly repaid.
C20_Witness ==
    /\ res.op = "repayLoan" /\ res.err = "LoanNotApproved"
    /\ \A i \in LoanIds : loans[i].id # 0 => loans[i].defaulted
    /\ \E i \in LoanIds : loans[i].defaulted /\ loans[i].repaidAmount > 0

\* What C21 says of the repayment itself: a full repayment of a loan that
\* holds collateral sets the loan's collateralAmount to 0 and adds the same
\* amount to collateralBalances of the borrower.
C21_CollateralCredited ==
    [][res'.op = "repayLoan" /\ res'.err = Ok =>
        \A s \in Addr, i \in LendLoanIds, a \in PartialRepayChoices :
            (repayLoan(s, i, a) /\ ~loans'[i].active) =>
                /\ loans'[i].collateralAmount = 0
                /\ collateralBalances'[s] =
                       collateralBalances[s] + loans[i].collateralAmount]_vars

\* What the contract does with the credit: no call ever lowers
\* collateralBalances or pays it out.
C21_CollateralLocked ==
    [][\A b \in Addr :
          /\ collateralBalances'[b] >= collateralBalances[b]
          /\ tokenBalance'[LendingContract] >= SumCollateralBalances(Addr)]_vars

\* C21: on full repayment the collateral of the loan is credited to the
\* borrower, and the credit does not stay locked in the contract: when every
\* call that can be made keeps being made, collateral credited to a borrower
\* is eventually paid out to the borrower.
C21_CollateralReturned ==
    /\ C21_CollateralCredited
    /\ \A b \in Addr :
           collateralBalances[b] > 0 ~> collateralBalances[b] = 0

\* The principal of the active loans among ids.
RECURSIVE SumActiveAmount(_)
SumActiveAmount(ids) ==
    IF ids = {} THEN 0
    ELSE LET i == CHOOSE x \in ids : TRUE IN
         (IF loans[i].active THEN loans[i].amount ELSE 0)
             + SumActiveAmount(ids \ {i})

\* C22: borrowerProfiles[b].activeLoans is the number of active loans of
\* borrower b, totalActiveLoans is the sum of the principals of the active
\* loans, and neither counter goes below 0.
C22_ActiveCountersAgree ==
    /\ \A b \in Addr :
           /\ borrowerProfiles[b].activeLoans =
                  Cardinality({i \in LoanIds :
                                  loans[i].active /\ loans[i].borrower = b})
           /\ borrowerProfiles[b].activeLoans >= 0
    /\ totalActiveLoans = SumActiveAmount(LoanIds)
    /\ totalActiveLoans >= 0
    /\ \A i \in LoanIds : loans[i].id = 0 => ~loans[i].active

\* A borrower has two loans active, one loan repaid and one defaulted.
C22_Witness ==
    /\ \E b \in Addr : borrowerProfiles[b].activeLoans = 2
    /\ \E i \in LoanIds : loans[i].defaulted
    /\ \E i \in LoanIds :
           loans[i].approved /\ ~loans[i].active /\ ~loans[i].defaulted

\* C23: totalUsers is the number of distinct user identifiers whose
\* isRegistered flag is true, so that getStats counts every registered user
\* exactly once.
C23_TotalUsersCountsRegistered ==
    totalUsers = Cardinality({u \in UserIds : userData[u].isRegistered})

\* C24: getUserProfile is a pure read: it leaves users and nullifierToUser
\* unchanged, and the outcome of a later applyMicroloan, castVote or
\* claimAirdrop request of any user is the same after it as before it; stated
\* for the handler up to its await and for its answer after the await.
C24_GetProfilePureRead ==
    [][((\E u \in Addr : handleGetProfile(u))
            \/ \E slot \in Slots : handleGetProfileResume(slot)) =>
           /\ users' = users
           /\ nullifierToUser' = nullifierToUser
           /\ \A v \in Addr :
                  /\ MicroloanStatus(v)' = MicroloanStatus(v)
                  /\ GovernanceStatus(v)' = GovernanceStatus(v)
                  /\ \A id \in AirdropIdChoices :
                         AirdropRefused(v, id)' = AirdropRefused(v, id)]_vars

====================================================================
